---------------------------- MODULE Spec2Model ----------------------------
(***************************************************************************)
(* Model of the changer library (src/CChangerLib): the ChangerConnection   *)
(* lifecycle and CDB engine of sbp2.c, the process-wide sense slot of      *)
(* scsi.c, the SCSI commands and response parsers of scsi.c, and the       *)
(* Disk Arbitration calls of mount.c (library and application bridge).     *)
(*                                                                         *)
(* The library is single-threaded: every public function is one action,    *)
(* except execute_cdb_sbp2, which blocks in runloop_wait while the run     *)
(* loop delivers status callbacks; its position is the variable call.      *)
(***************************************************************************)
EXTENDS Integers, Sequences, FiniteSets, TLC

VARIABLES
    conn,          \* [Conns -> ChangerConnection], the caller's structs
    g_last_sense,  \* scsi.c: static SenseData g_last_sense
    call,          \* the execute_cdb_sbp2 call blocked in runloop_wait, if any
    stale,         \* [Conns -> Nat]: ORBs still at the device whose call has returned
    phase,         \* history: "new", "connected", "failed" (connect returned -1),
                   \*   "disconnected", "disconnected_again" (disconnected twice or more)
    acquired,      \* history: [Conns -> set of resources acquired since changer_connect]
    released,      \* history: [Conns -> sequence of resources released since changer_connect]
    connLog,       \* history: [Conns -> backends attempted by the latest changer_connect]
    last,          \* history: the latest completed public call and what it did
    peak,          \* history: [Conns -> most ORBs of the connection at the device at once]
    map,           \* the caller's ElementMap
    ms,            \* history: the latest scsi_mode_sense_element call
    cmd,           \* history: the latest call of another scsi.c command
    mnt,           \* the Disk Arbitration request of mount.c in progress, or the latest
    loc            \* the disc locator or mount_wait_for_disc call in progress, or the latest

connVars == <<conn, g_last_sense, call, stale, phase, acquired, released,
              connLog, last, peak>>
msVars == <<map, ms>>
nonConnVars == <<map, ms, cmd, mnt, loc>>
nonMapVars == <<cmd, mnt, loc>>
vars == <<conn, g_last_sense, call, stale, phase, acquired, released,
          connLog, last, peak, map, ms, cmd, mnt, loc>>

-----------------------------------------------------------------------------
(* Program constants *)

BACKEND_NONE == 0
BACKEND_SCSITASK == 1
BACKEND_SBP2 == 2

DIR_NONE == 0
DIR_READ == 1
DIR_WRITE == 2

NULL == "NULL"

(* Bounds of the model *)

\* Most ORBs of one connection left at the device by calls that have returned.
MaxStale == 1

Conns == {"A", "B"}

-----------------------------------------------------------------------------
(* Sense data as the device reports it.  A sample is the format of the     *)
(* sense block and the (key, asc, ascq) it encodes.                        *)

SenseSamples ==
    { [fmt |-> "fixed",      key |-> 5, asc |-> 59, ascq |-> 14],
      [fmt |-> "fixed",      key |-> 6, asc |-> 41, ascq |-> 0],
      [fmt |-> "descriptor", key |-> 2, asc |-> 4,  ascq |-> 2] }

NoSenseBytes == [b0 |-> 0, b2 |-> 0, b12 |-> 0, b13 |-> 0]

\* Bytes 0, 2, 12 and 13 of the sense block: the fixed format keeps the key in
\* byte 2 and asc/ascq in bytes 12/13; the descriptor format keeps the key in
\* byte 1 and asc/ascq in bytes 2/3.
SenseBytes(s) ==
    IF s.fmt = "fixed"
    THEN [b0 |-> 112, b2 |-> s.key, b12 |-> s.asc, b13 |-> s.ascq]
    ELSE [b0 |-> 114, b2 |-> s.asc, b12 |-> 0, b13 |-> 0]

Triple(s) == <<s.key, s.asc, s.ascq>>

\* scsi_set_sense: always marks the slot valid.
scsi_set_sense(sense_key, asc, ascq) ==
    [sense_key |-> sense_key, asc |-> asc, ascq |-> ascq, valid |-> TRUE]

\* scsi_get_last_sense(void): the one slot, whatever the connection.
scsi_get_last_sense == g_last_sense

ZeroSense == [sense_key |-> 0, asc |-> 0, ascq |-> 0, valid |-> FALSE]

-----------------------------------------------------------------------------
(* ChangerConnection and its resources *)

ZeroConn ==
    [backend |-> BACKEND_NONE, service |-> NULL, scsi_device |-> NULL,
     has_exclusive |-> FALSE, lun |-> NULL, login |-> NULL,
     connected |-> FALSE]

\* A handle under construction: the struct, the resources acquired and
\* released so far, the backends attempted, and the return code.
Handle(c, a, r, l, rc) == [conn |-> c, acq |-> a, rel |-> r, log |-> l, rc |-> rc]

Acquire(h, res) == [h EXCEPT !.acq = @ \cup {res}]
Release(h, res) == [h EXCEPT !.rel = Append(@, res)]
Fail(h) == [h EXCEPT !.rc = -1]

KernelOutcomes == {"no_task_service", "plugin_fail", "query_fail",
                   "ok_exclusive", "ok_shared"}
Sbp2Outcomes == {"no_service", "plugin_fail", "query_fail", "open_fail",
                 "create_login_fail", "login_fail", "ok"}

\* connect_scsitask giving up when the lease is refused
ScsiTaskAttachedLeaseRequired(h, k) ==
    IF k = "ok_exclusive"
    THEN [Acquire([h EXCEPT !.conn.has_exclusive = TRUE], "lease")
             EXCEPT !.conn.backend = BACKEND_SCSITASK,
                    !.conn.connected = TRUE, !.rc = 0]
    ELSE Fail(h)

\* connect_scsitask, lines 210-218: the lease is advisory, then the backend
\* is marked active.
ScsiTaskAttached(h, k) ==
    LET h1 == IF k = "ok_exclusive"
              THEN Acquire([h EXCEPT !.conn.has_exclusive = TRUE], "lease")
              ELSE h
    IN  [h1 EXCEPT !.conn.backend = BACKEND_SCSITASK,
                   !.conn.connected = TRUE,
                   !.rc = 0]

connect_scsitask(h0, k) ==
    LET h == [h0 EXCEPT !.log = Append(@, "scsitask")]
    IN  IF k = "no_task_service" THEN Fail(h)
        ELSE LET h1 == Release(Acquire(h, "task_service"), "task_service")
             IN  IF k \in {"plugin_fail", "query_fail"} THEN Fail(h1)
                 ELSE ScsiTaskAttached(
                          Acquire([h1 EXCEPT !.conn.scsi_device = "dev"],
                                  "scsi_device"), k)

\* connect_sbp2 marking the backend active before the login has completed
Sbp2LoginFailedMarked(h) ==
    Fail([Release(Release(h, "login"), "lun")
             EXCEPT !.conn.login = NULL, !.conn.lun = NULL,
                    !.conn.backend = BACKEND_SBP2, !.conn.connected = TRUE])

\* connect_sbp2, lines 420-433: the login is submitted and awaited; on failure
\* login and LUN are released and cleared, else the backend is marked active.
Sbp2LoginFailed(h) ==
    Fail([Release(Release(h, "login"), "lun")
             EXCEPT !.conn.login = NULL, !.conn.lun = NULL])

Sbp2LoggedIn(h) ==
    [h EXCEPT !.conn.backend = BACKEND_SBP2, !.conn.connected = TRUE, !.rc = 0]

Sbp2Login(h, s) ==
    IF s = "login_fail" THEN Sbp2LoginFailed(h) ELSE Sbp2LoggedIn(h)

connect_sbp2(h0, s) ==
    LET h == [h0 EXCEPT !.log = Append(@, "sbp2")]
    IN  IF s = "no_service" THEN Fail(h)
        ELSE LET h1 == Acquire([h EXCEPT !.conn.service = "lun_service"],
                               "lun_service")
             IN  IF s \in {"plugin_fail", "query_fail"} THEN Fail(h1)
                 ELSE LET h2 == Acquire([h1 EXCEPT !.conn.lun = "lun"], "lun")
                      IN  IF s = "open_fail"
                          THEN Fail([Release(h2, "lun") EXCEPT !.conn.lun = NULL])
                          ELSE IF s = "create_login_fail"
                          THEN Fail([Release(h2, "lun") EXCEPT !.conn.lun = NULL])
                          ELSE Sbp2Login(
                                   Acquire([h2 EXCEPT !.conn.login = "login"],
                                           "login"), s)

\* changer_connect falling through to SBP-2 after a successful kernel attach
TrySbp2Always(h) == TRUE

\* changer_connect, line 531: the fallback is reached only when the kernel
\* attach did not return 0.
TrySbp2(h) == h.rc # 0

changer_connect(nub, k, s) ==
    LET h0 == Handle(ZeroConn, {}, <<>>, <<>>, -1)
        h1 == IF nub
              THEN connect_scsitask(
                       Acquire([h0 EXCEPT !.conn.service = "nub"], "nub"), k)
              ELSE h0
    IN  IF TrySbp2(h1) THEN connect_sbp2(h1, s) ELSE h1

\* disconnect_scsitask leaving conn->scsi_device set after releasing it
disconnect_scsitask_dangling(h) ==
    IF h.conn.scsi_device # NULL
    THEN LET h1 == IF h.conn.has_exclusive THEN Release(h, "lease") ELSE h
         IN  Release(h1, "scsi_device")
    ELSE h

\* disconnect_scsitask
disconnect_scsitask(h) ==
    IF h.conn.scsi_device # NULL
    THEN LET h1 == IF h.conn.has_exclusive THEN Release(h, "lease") ELSE h
         IN  [Release(h1, "scsi_device") EXCEPT !.conn.scsi_device = NULL]
    ELSE h

\* disconnect_sbp2
disconnect_sbp2(h) ==
    LET h1 == IF h.conn.login # NULL
              THEN [Release(h, "login") EXCEPT !.conn.login = NULL]
              ELSE h
    IN  IF h1.conn.lun # NULL
        THEN [Release(h1, "lun") EXCEPT !.conn.lun = NULL]
        ELSE h1

\* changer_disconnect, lines 547-550: the service handle goes last.
ReleaseService(h) ==
    IF h.conn.service # NULL
    THEN [Release(h, h.conn.service) EXCEPT !.conn.service = NULL]
    ELSE h

changer_disconnect(h) ==
    LET h1 == IF h.conn.backend = BACKEND_SCSITASK THEN disconnect_scsitask(h)
              ELSE IF h.conn.backend = BACKEND_SBP2 THEN disconnect_sbp2(h)
              ELSE h
        h2 == ReleaseService(h1)
    IN  [h2 EXCEPT !.conn.connected = FALSE]

-----------------------------------------------------------------------------
(* CDB engine *)

NoSample == [fmt |-> "none", key |-> 0, asc |-> 0, ascq |-> 0]

\* What ExecuteTaskSync hands back: the transport's return, the task status
\* and the auto-sense of the command (none when the device reported GOOD or
\* the command never completed).
KernelResults ==
    {[kr |-> "success", status |-> "GOOD", sense |-> NoSample],
     [kr |-> "error", status |-> "NONE", sense |-> NoSample]}
    \cup {[kr |-> k, status |-> "CHECK_CONDITION", sense |-> s] :
             k \in {"success", "error"}, s \in SenseSamples}

\* What the device answers to an ORB: the notification event, and inside a
\* normal status block the SCSI status and sense of the command.
Sbp2Results ==
    {[event |-> "NormalCommandStatus", status |-> "GOOD", sense |-> NoSample],
     [event |-> "NormalCommandTimeout", status |-> "NONE", sense |-> NoSample]}
    \cup {[event |-> "NormalCommandStatus", status |-> "CHECK_CONDITION",
           sense |-> s] : s \in SenseSamples}

Directions == {DIR_NONE, DIR_READ, DIR_WRITE}
\* buffer_len of the caller's buffer: 0 (or no buffer) and 96.
BufferLens == {0, 96}

\* changer_execute_cdb without the connected test of line 559
ExecAllowedUnchecked(cn) == TRUE

\* changer_execute_cdb, line 559
ExecAllowed(cn) == cn.connected

\* changer_execute_cdb sending every CDB to the kernel backend
DispatchScsiTaskOnly(cn) ==
    IF ~ExecAllowed(cn) THEN "reject" ELSE "scsitask"

\* changer_execute_cdb, lines 561-569
Dispatch(cn) ==
    IF ~ExecAllowed(cn) THEN "reject"
    ELSE IF cn.backend = BACKEND_SCSITASK THEN "scsitask"
    ELSE IF cn.backend = BACKEND_SBP2 THEN "sbp2"
    ELSE "reject"

\* execute_cdb_scsitask, lines 273-296: the sense slot after the task.
ScsiTaskSense(gs, r) ==
    LET sb == SenseBytes(r.sense)
        sense_key == sb.b2 % 16
        asc == sb.b12
        ascq == sb.b13
    IN  IF r.kr # "success"
        THEN IF sense_key # 0 \/ asc # 0 \/ ascq # 0
             THEN scsi_set_sense(sense_key, asc, ascq)
             ELSE gs
        ELSE IF r.status # "GOOD"
             THEN scsi_set_sense(sense_key, asc, ascq)
             ELSE gs

\* execute_cdb_scsitask, lines 273-296: the return code.
ScsiTaskRc(r) ==
    IF r.kr # "success" THEN -1
    ELSE IF r.status # "GOOD" THEN -1
    ELSE 0

\* execute_cdb_sbp2 returning 0 whatever the event
Sbp2RcAnyEvent(event) == 0

\* execute_cdb_sbp2, lines 505-509
Sbp2Rc(event) == IF event # "NormalCommandStatus" THEN -1 ELSE 0

\* execute_cdb_sbp2, lines 478 and 499: a buffer is attached to the ORB.
Sbp2HasBuffer(dir, len) == dir # DIR_NONE /\ len > 0

\* execute_cdb_sbp2, what is released on each way out once the ORB exists:
\* the ORB alone when submitORB failed (line 488) and when the wait timed
\* out (line 495), the command buffers if any and then the ORB when the
\* wait was completed (lines 499-503).
Sbp2Releases(path, dir, len) ==
    IF path = "done" /\ Sbp2HasBuffer(dir, len)
    THEN <<"releaseCommandBuffers", "Release">>
    ELSE <<"Release">>

\* The call blocked in runloop_wait: its connection and arguments, the
\* StatusWait the callback writes (done, event), whether its own ORB is still
\* at the device, and whose status the callback delivered.
NoCall ==
    [active |-> FALSE, c |-> "-", dir |-> DIR_NONE, len |-> 0,
     done |-> FALSE, event |-> "-", from |-> "-", own |-> FALSE,
     status |-> "NONE", sense |-> NoSample]

\* The record of the latest public call: what was called on which connection,
\* its return code and arguments, whether a SCSI task or an ORB was created
\* and whether a command went to the device.  status and sense are the
\* device's answer to the most recently executed CDB (this call's, when it
\* submitted one).  via is the backend the call was dispatched to, event
\* the notification event the wait ended with, orb_log what the call
\* released of its ORB, in order.
NoLast ==
    [op |-> "none", c |-> "-", rc |-> 0, dir |-> DIR_NONE, len |-> 0,
     task |-> FALSE, orb |-> FALSE, submitted |-> FALSE, from |-> "-",
     status |-> "NEVER", sense |-> NoSample,
     via |-> "-", event |-> "-", orb_log |-> <<>>]

LastRec(op, c, rc, dir, len) ==
    [NoLast EXCEPT !.op = op, !.c = c, !.rc = rc, !.dir = dir, !.len = len,
                   !.status = last.status, !.sense = last.sense]

Max(a, b) == IF a >= b THEN a ELSE b

\* Arguments of changer_execute_cdb: <<direction, buffer_len>>.
Args == {<<DIR_NONE, 0>>, <<DIR_READ, 96>>, <<DIR_READ, 0>>, <<DIR_WRITE, 0>>}

-----------------------------------------------------------------------------
(* Actions of the connection specifications *)

Idle == ~call.active

\* changer_connect(&conn[c]) on a connection that is not connected, the
\* registry and the backends answering from the given outcome sets.
Connect(c, Nubs, Ks, Ss) ==
    /\ Idle
    /\ ~conn[c].connected
    /\ \E nub \in Nubs, k \in Ks, s \in Ss :
          LET h == changer_connect(nub, k, s)
          IN  /\ conn' = [conn EXCEPT ![c] = h.conn]
              /\ acquired' = [acquired EXCEPT ![c] = h.acq]
              /\ released' = [released EXCEPT ![c] = h.rel]
              /\ connLog' = [connLog EXCEPT ![c] = h.log]
              /\ phase' = [phase EXCEPT
                              ![c] = IF h.rc = 0 THEN "connected" ELSE "failed"]
              /\ last' = LastRec("connect", c, h.rc, DIR_NONE, 0)
    /\ peak' = [peak EXCEPT ![c] = 0]
    /\ UNCHANGED <<g_last_sense, call, stale, nonConnVars>>

\* changer_disconnect(&conn[c]); logging out ends the ORBs of the login.
Disconnect(c) ==
    /\ Idle
    /\ LET h == changer_disconnect(
                    Handle(conn[c], acquired[c], released[c], connLog[c], 0))
       IN  /\ conn' = [conn EXCEPT ![c] = h.conn]
           /\ released' = [released EXCEPT ![c] = h.rel]
    /\ phase' = [phase EXCEPT
                    ![c] = IF @ \in {"disconnected", "disconnected_again"}
                           THEN "disconnected_again" ELSE "disconnected"]
    /\ last' = LastRec("disconnect", c, 0, DIR_NONE, 0)
    /\ stale' = [stale EXCEPT ![c] = 0]
    /\ UNCHANGED <<g_last_sense, call, acquired, connLog, peak, nonConnVars>>

\* changer_execute_cdb returning -1 without reaching a backend.
ExecRejected(c, As) ==
    /\ Idle
    /\ Dispatch(conn[c]) = "reject"
    /\ \E a \in As :
          last' = [LastRec("exec", c, -1, a[1], a[2]) EXCEPT !.via = "reject"]
    /\ UNCHANGED <<conn, g_last_sense, call, stale, phase, acquired, released,
                   connLog, peak, nonConnVars>>

\* changer_execute_cdb through execute_cdb_scsitask: ExecuteTaskSync blocks
\* until the task has completed or the kernel has aborted it.
ExecScsiTask(c, As, Rs) ==
    /\ Idle
    /\ Dispatch(conn[c]) = "scsitask"
    /\ \E a \in As :
          \/ \* CreateSCSITask returned NULL
             /\ last' = [LastRec("exec", c, -1, a[1], a[2]) EXCEPT
                            !.via = "scsitask"]
             /\ UNCHANGED g_last_sense
          \/ \E r \in Rs :
                /\ g_last_sense' = ScsiTaskSense(g_last_sense, r)
                /\ last' = [LastRec("exec", c, ScsiTaskRc(r), a[1], a[2]) EXCEPT
                               !.task = TRUE, !.submitted = TRUE,
                               !.status = r.status, !.sense = r.sense,
                               !.from = "own", !.via = "scsitask"]
    /\ UNCHANGED <<conn, call, stale, phase, acquired, released, connLog,
                   peak, nonConnVars>>

\* changer_execute_cdb through execute_cdb_sbp2, up to runloop_wait.
Sbp2Begin(c, As) ==
    /\ Idle
    /\ Dispatch(conn[c]) = "sbp2"
    /\ \E a \in As :
          \/ \* createORB returned NULL
             /\ last' = [LastRec("exec", c, -1, a[1], a[2]) EXCEPT
                            !.via = "sbp2"]
             /\ UNCHANGED <<call, peak>>
          \/ \* submitORB failed: the ORB is released
             /\ last' = [LastRec("exec", c, -1, a[1], a[2]) EXCEPT
                            !.orb = TRUE, !.via = "sbp2",
                            !.orb_log = Sbp2Releases("submit_failed", a[1], a[2])]
             /\ UNCHANGED <<call, peak>>
          \/ \* submitted, doorbell rung, waiting
             /\ call' = [NoCall EXCEPT !.active = TRUE, !.c = c, !.dir = a[1],
                                       !.len = a[2], !.own = TRUE]
             /\ peak' = [peak EXCEPT ![c] = Max(@, stale[c] + 1)]
             /\ UNCHANGED last
    /\ UNCHANGED <<conn, g_last_sense, stale, phase, acquired, released,
                   connLog, nonConnVars>>

\* The run loop delivers the status of the ORB the waiting call submitted:
\* status_callback writes the call's StatusWait.
StatusOwn(Rs) ==
    /\ call.active /\ ~call.done /\ call.own
    /\ \E r \in Rs :
          call' = [call EXCEPT !.done = TRUE, !.event = r.event,
                               !.from = "own", !.own = FALSE,
                               !.status = r.status, !.sense = r.sense]
    /\ UNCHANGED <<conn, g_last_sense, stale, phase, acquired, released,
                   connLog, last, peak, nonConnVars>>

\* The call's own ORB, if its status has not been delivered, stays at the
\* device after the call has released its ORB object.
LeftBehind(cl) == IF cl.own THEN 1 ELSE 0

\* The run loop delivers the status of an ORB whose call returned earlier.
\* On the waiting connection the login's status notify now points at the
\* waiting call's StatusWait, so the callback completes the wait.  On another
\* connection the registered refCon is the dead stack frame of the earlier
\* call: the write may land in the waiting call's StatusWait or do no harm.
StatusStale(c, Rs) ==
    /\ call.active /\ ~call.done
    /\ stale[c] > 0
    /\ stale' = [stale EXCEPT ![c] = @ - 1]
    /\ \E e \in {r.event : r \in Rs} :
          \/ /\ c = call.c
             /\ call' = [call EXCEPT !.done = TRUE, !.event = e,
                                     !.from = "stale"]
          \/ /\ c # call.c
             /\ stale[call.c] + LeftBehind(call) <= MaxStale
             /\ call' = [call EXCEPT !.done = TRUE, !.event = e,
                                     !.from = "foreign"]
          \/ /\ c # call.c
             /\ UNCHANGED call
    /\ UNCHANGED <<conn, g_last_sense, phase, acquired, released, connLog,
                   last, peak, nonConnVars>>

\* An ORB left at the device is finished or dropped without a notification.
StaleLost(c) ==
    /\ stale[c] > 0
    /\ stale' = [stale EXCEPT ![c] = @ - 1]
    /\ UNCHANGED <<conn, g_last_sense, call, phase, acquired, released,
                   connLog, last, peak, nonConnVars>>

\* runloop_wait gave up: the ORB object is released and -1 returned; nothing
\* is aborted at the device.
Sbp2WaitTimeout ==
    /\ call.active /\ ~call.done
    /\ stale[call.c] + LeftBehind(call) <= MaxStale
    /\ stale' = [stale EXCEPT ![call.c] = @ + LeftBehind(call)]
    /\ last' = [LastRec("exec", call.c, -1, call.dir, call.len) EXCEPT
                   !.orb = TRUE, !.submitted = TRUE, !.from = "timeout",
                   !.status = "NONE", !.sense = NoSample, !.via = "sbp2",
                   !.orb_log = Sbp2Releases("timeout", call.dir, call.len)]
    /\ call' = NoCall
    /\ UNCHANGED <<conn, g_last_sense, phase, acquired, released, connLog,
                   peak, nonConnVars>>

\* wait.done was set: buffers and ORB are released, the event decides.  When
\* the status was not the own ORB's, the own command is still running.
Sbp2Return ==
    /\ call.active /\ call.done
    /\ stale' = [stale EXCEPT ![call.c] = @ + LeftBehind(call)]
    /\ last' = [LastRec("exec", call.c, Sbp2Rc(call.event), call.dir, call.len)
                   EXCEPT !.orb = TRUE, !.submitted = TRUE,
                          !.status = call.status, !.sense = call.sense,
                          !.from = call.from, !.via = "sbp2",
                          !.event = call.event,
                          !.orb_log = Sbp2Releases("done", call.dir, call.len)]
    /\ call' = NoCall
    /\ UNCHANGED <<conn, g_last_sense, phase, acquired, released, connLog,
                   peak, nonConnVars>>

-----------------------------------------------------------------------------
(* MODE SENSE, Element Address Assignment page (scsi.c) *)

\* Most storage slots a sampled page reports.
MaxSlots == 3

\* uint16_t arithmetic
U16 == 65536

\* (hi << 8) | lo of two response bytes
BE16(b) == b[1] * 256 + b[2]

ZeroMap ==
    [transport |-> 0, slots |-> <<>>, slot_count |-> 0, drive |-> 0,
     ie |-> 0, has_ie |-> FALSE]

\* The TEST UNIT READY CDB and the MODE SENSE(10) CDB the function builds:
\* alloc = 256 goes big-endian into bytes 7 and 8.
TurCdb == <<0, 0, 0, 0, 0, 0>>
ModeSenseAlloc == 256

\* A MODE SENSE(10) CDB asking for 255 bytes.
ModeSenseCdbAlloc255 == <<90, 8, 29, 0, 0, 0, 0, 0, 255, 0>>

ModeSenseCdb ==
    <<90, 8, 29, 0, 0, 0, 0, (ModeSenseAlloc \div 256) % 256,
      ModeSenseAlloc % 256, 0>>

\* Mode parameter headers sampled: block descriptor length (bytes 6..7),
\* the page's first byte and its page length byte.
PageHeaders ==
    { [bdl |-> <<0, 0>>, code |-> 29, len |-> 18],     \* as the changer sends it
      [bdl |-> <<0, 8>>, code |-> 157, len |-> 16],    \* PS bit set, descriptor present
      [bdl |-> <<0, 240>>, code |-> 29, len |-> 18],   \* page beyond the buffer
      [bdl |-> <<0, 0>>, code |-> 28, len |-> 18],     \* another page
      [bdl |-> <<0, 0>>, code |-> 29, len |-> 14] }    \* page too short

FirstStorageBytes == {<<0, 0>>, <<0, 16>>, <<255, 254>>}
NumStorageBytes == {<<0, n>> : n \in 0..MaxSlots}
NumIeBytes == {<<0, 0>>, <<0, 1>>}

\* A call's inputs: the device's answers and whether calloc succeeds.
AllInputs ==
    [hdr : PageHeaders, exec_rc : {0, -1}, tur_fail : 0..3,
     transport : {<<0, 224>>}, first_storage : FirstStorageBytes,
     num_storage : NumStorageBytes, first_ie : {<<0, 32>>},
     num_ie : NumIeBytes, drive : {<<1, 0>>}, calloc_ok : BOOLEAN]

HeaderAccepted(hdr) ==
    /\ 8 + BE16(hdr.bdl) + 18 <= ModeSenseAlloc
    /\ hdr.code % 64 = 29
    /\ hdr.len >= 16

\* A changer answering at once with a well-formed page of one slot.
PlainHeader(i) == i.exec_rc = 0 /\ i.hdr = [bdl |-> <<0, 0>>, code |-> 29, len |-> 18]
PlainStorage(i) ==
    i.first_storage = <<0, 16>> /\ i.num_storage = <<0, 1>> /\ i.calloc_ok
PlainIe(i) == i.num_ie = <<0, 0>>
PlainTur(i) == i.tur_fail = 0

\* The sampled inputs: the plain answer varied in its header and return code,
\* in its storage fields, in its import/export count, or in the TEST UNIT
\* READY outcomes.
Inputs ==
    { i \in AllInputs :
         \/ PlainStorage(i) /\ PlainIe(i) /\ PlainTur(i)
         \/ PlainHeader(i) /\ PlainIe(i) /\ PlainTur(i)
         \/ PlainHeader(i) /\ PlainStorage(i) /\ PlainTur(i)
         \/ PlainHeader(i) /\ PlainStorage(i) /\ PlainIe(i) }

\* scsi_mode_sense_element, line 188: map->slots[i] = first_storage + i,
\* stored into a uint16_t.
SlotAddress(first_storage, i) == (first_storage + i) % U16

\* scsi_mode_sense_element, lines 180-190
StoreSlots(m, first_storage, num_storage) ==
    [m EXCEPT !.slots = [i \in 1..num_storage |->
                            SlotAddress(first_storage, i - 1)],
              !.slot_count = num_storage]

\* scsi_mode_sense_element, lines 192-196
StoreIe(m, first_ie, num_ie) ==
    IF num_ie > 0 THEN [m EXCEPT !.ie = first_ie, !.has_ie = TRUE] ELSE m

\* The pre-step without the break: always three.
TurCountNoBreak(tur_fail) == 3

\* scsi_mode_sense_element, lines 127-132: TEST UNIT READY is sent until one
\* succeeds, three times at most.
TurCount(tur_fail) == IF tur_fail >= 3 THEN 3 ELSE tur_fail + 1

\* scsi_mode_sense_element: the caller's map and the return code after the
\* call, in the order the function assigns.
scsi_mode_sense_element(m, i) ==
    IF i.exec_rc # 0 THEN [map |-> m, rc |-> i.exec_rc]
    ELSE IF 8 + BE16(i.hdr.bdl) + 18 > ModeSenseAlloc THEN [map |-> m, rc |-> -1]
    ELSE IF i.hdr.code % 64 # 29 \/ i.hdr.len < 16 THEN [map |-> m, rc |-> -1]
    ELSE LET m1 == [m EXCEPT !.transport = BE16(i.transport),
                             !.drive = BE16(i.drive)]
             first_storage == BE16(i.first_storage)
             num_storage == BE16(i.num_storage)
         IN  IF num_storage > 0 /\ ~i.calloc_ok
             THEN [map |-> [m1 EXCEPT !.slots = <<>>], rc |-> -1]
             ELSE LET m2 == IF num_storage > 0
                            THEN StoreSlots(m1, first_storage, num_storage)
                            ELSE m1
                  IN  [map |-> StoreIe(m2, BE16(i.first_ie), BE16(i.num_ie)),
                       rc |-> 0]

\* element_map_free
element_map_free(m) == [m EXCEPT !.slots = <<>>, !.slot_count = 0]

NoInput == CHOOSE i \in Inputs : TRUE

\* scsi_mode_sense_element(conn, &map) against a device answering i.
ModeSense ==
    /\ \E i \in Inputs :
          LET r == scsi_mode_sense_element(map, i)
          IN  /\ map' = r.map
              /\ ms' = [op |-> "mode_sense", in |-> i, rc |-> r.rc,
                        cdbs |-> [n \in 1..TurCount(i.tur_fail) |-> TurCdb]
                                 \o <<ModeSenseCdb>>,
                        dir |-> DIR_READ, buffer_len |-> ModeSenseAlloc]
    /\ UNCHANGED <<connVars, nonMapVars>>

\* element_map_free(&map)
MapFree ==
    /\ map' = element_map_free(map)
    /\ ms' = [ms EXCEPT !.op = "free"]
    /\ UNCHANGED <<connVars, nonMapVars>>

\* The caller starts over with a zeroed ElementMap.
MapNew ==
    /\ map' = ZeroMap
    /\ ms' = [ms EXCEPT !.op = "new"]
    /\ UNCHANGED <<connVars, nonMapVars>>

-----------------------------------------------------------------------------
(* scsi.c: READ ELEMENT STATUS *)

ELEM_TRANSPORT == 1
ELEM_STORAGE == 2
ELEM_IE == 3
ELEM_DRIVE == 4

Min(a, b) == IF a < b THEN a ELSE b

BE16Bytes(n) == <<(n \div 256) % 256, n % 256>>
BE24Bytes(n) == <<(n \div 65536) % 256, (n \div 256) % 256, n % 256>>

RECURSIVE Flatten(_)
Flatten(ss) == IF ss = <<>> THEN <<>> ELSE Head(ss) \o Flatten(Tail(ss))

\* The byte at offset o of the calloc'ed buffer after the device wrote the
\* response bytes resp at its start.
ByteAt(resp, o) == IF o < Len(resp) THEN resp[o + 1] ELSE 0

\* scsi_read_element_status, lines 208-211
ResAlloc(count) ==
    LET a == 8 + 8 + (count * 24)
        b == IF a < 4096 THEN 4096 ELSE a
    IN  IF b > 65535 THEN 65535 ELSE b

\* scsi_read_element_status, lines 216-225
ResCdb(element_type, start, count) ==
    <<184, element_type % 16>> \o BE16Bytes(start) \o BE16Bytes(count)
        \o BE24Bytes(ResAlloc(count)) \o <<0, 0, 0>>

\* lines 290-296: the first desc_len bytes of the descriptor, 12 at most,
\* are all zero.
AllZero(buf, offset, desc_len) ==
    \A i \in 0..(Min(desc_len, 12) - 1) : ByteAt(buf, offset + i) = 0

\* The padding test applied to pages of every element type.
SkipsDescriptorAnyType(buf, type, offset, desc_len) ==
    AllZero(buf, offset, desc_len)

\* lines 298, 316: the descriptor is padding and gets no entry.
SkipsDescriptor(buf, type, offset, desc_len) ==
    AllZero(buf, offset, desc_len) /\ type = ELEM_STORAGE

\* lines 286-287, 299-309: the ElementStatus written for the descriptor at
\* offset. src_set tells whether source_valid and source were assigned; at
\* is the descriptor's offset in the response.
EntryOfSwapped(buf, offset, desc_len) ==
    [at |-> offset,
     address |-> ByteAt(buf, offset) + 256 * ByteAt(buf, offset + 1),
     full |-> ByteAt(buf, offset + 2) % 2 = 1,
     except |-> (ByteAt(buf, offset + 2) \div 4) % 2 = 1,
     src_set |-> desc_len >= 12,
     source_valid |-> desc_len >= 12 /\ ByteAt(buf, offset + 9) >= 128,
     source |-> IF desc_len >= 12
                THEN ByteAt(buf, offset + 10) + 256 * ByteAt(buf, offset + 11)
                ELSE 0]

EntryOf(buf, offset, desc_len) ==
    [at |-> offset,
     address |-> 256 * ByteAt(buf, offset) + ByteAt(buf, offset + 1),
     full |-> ByteAt(buf, offset + 2) % 2 = 1,
     except |-> (ByteAt(buf, offset + 2) \div 4) % 2 = 1,
     src_set |-> desc_len >= 12,
     source_valid |-> desc_len >= 12 /\ ByteAt(buf, offset + 9) >= 128,
     source |-> IF desc_len >= 12
                THEN 256 * ByteAt(buf, offset + 10) + ByteAt(buf, offset + 11)
                ELSE 0]

\* lines 280-321: the descriptors of one page; the result is the offset
\* reached and the entries written so far.
RECURSIVE ParseDescriptors(_, _, _, _, _, _, _)
ParseDescriptors(buf, type, desc_len, offset, page_end, max_statuses, out) ==
    IF offset + desc_len <= page_end /\ Len(out) < max_statuses
    THEN IF desc_len < 2
         THEN [offset |-> page_end, out |-> out]
         ELSE ParseDescriptors(buf, type, desc_len, offset + desc_len,
                               page_end, max_statuses,
                               IF SkipsDescriptor(buf, type, offset, desc_len)
                               THEN out
                               ELSE Append(out, EntryOf(buf, offset, desc_len)))
    ELSE [offset |-> offset, out |-> out]

\* lines 259-324: the element status pages.
RECURSIVE ParsePages(_, _, _, _, _)
ParsePages(buf, offset, end, max_statuses, out) ==
    IF offset + 8 <= end /\ Len(out) < max_statuses
    THEN LET type == ByteAt(buf, offset) % 16
             desc_len == 256 * ByteAt(buf, offset + 2) + ByteAt(buf, offset + 3)
             page_bytes == 65536 * ByteAt(buf, offset + 5)
                           + 256 * ByteAt(buf, offset + 6) + ByteAt(buf, offset + 7)
             first == offset + 8
         IN  IF desc_len = 0 \/ page_bytes = 0 THEN out
             ELSE LET page_end == Min(first + page_bytes, end)
                      r == ParseDescriptors(buf, type, desc_len, first,
                                            page_end, max_statuses, out)
                  IN  ParsePages(buf, IF r.offset < page_end THEN page_end
                                      ELSE r.offset,
                                 end, max_statuses, r.out)
    ELSE out

\* lines 237, 256-257
ReportBytes(buf) ==
    65536 * ByteAt(buf, 5) + 256 * ByteAt(buf, 6) + ByteAt(buf, 7)
ReportEnd(report_bytes, alloc) == Min(8 + report_bytes, alloc)

\* scsi_read_element_status with the buffer parsed up to the allocation
\* length whatever the header reports.
scsi_read_element_status_whole_buffer(i) ==
    IF ~i.calloc_ok THEN [rc |-> -1, cdbs |-> <<>>, statuses |-> <<>>]
    ELSE LET cdbs == <<ResCdb(i.element_type, i.start, i.count)>>
             alloc == ResAlloc(i.count)
         IN  IF i.exec_rc # 0
             THEN [rc |-> i.exec_rc, cdbs |-> cdbs, statuses |-> <<>>]
             ELSE IF ~i.has_statuses
             THEN [rc |-> 0, cdbs |-> cdbs, statuses |-> <<>>]
             ELSE LET out == ParsePages(i.buf, 8, alloc, i.max_statuses, <<>>)
                  IN  [rc |-> Len(out), cdbs |-> cdbs, statuses |-> out]

\* scsi_read_element_status: the return code, the CDBs passed to
\* changer_execute_cdb and the entries written to statuses[0..].
scsi_read_element_status(i) ==
    IF ~i.calloc_ok THEN [rc |-> -1, cdbs |-> <<>>, statuses |-> <<>>]
    ELSE LET cdbs == <<ResCdb(i.element_type, i.start, i.count)>>
             alloc == ResAlloc(i.count)
         IN  IF i.exec_rc # 0
             THEN [rc |-> i.exec_rc, cdbs |-> cdbs, statuses |-> <<>>]
             ELSE IF ReportBytes(i.buf) = 0
             THEN [rc |-> 0, cdbs |-> cdbs, statuses |-> <<>>]
             ELSE IF ~i.has_statuses
             THEN [rc |-> 0, cdbs |-> cdbs, statuses |-> <<>>]
             ELSE LET out == ParsePages(i.buf, 8,
                                        ReportEnd(ReportBytes(i.buf), alloc),
                                        i.max_statuses, <<>>)
                  IN  [rc |-> Len(out), cdbs |-> cdbs, statuses |-> out]

\* The buffer indexes read for the descriptor at offset: address and
\* flags (lines 286-287), the bytes of the padding test up to the first
\* one that is not zero (lines 290-296), and the source bytes of an entry
\* that is written from a descriptor of 12 bytes or more (lines 304-309).
DescriptorReads(buf, type, offset, desc_len) ==
    {offset, offset + 1, offset + 2}
    \cup {offset + i : i \in {k \in 0..(Min(desc_len, 12) - 1) :
                                 \A j \in 0..(k - 1) : ByteAt(buf, offset + j) = 0}}
    \cup (IF ~SkipsDescriptor(buf, type, offset, desc_len) /\ desc_len >= 12
          THEN {offset + 9, offset + 10, offset + 11}
          ELSE {})

\* A descriptor loop that stays where it is on a descriptor shorter than
\* two bytes.
DescAdvanceStalling(offset, desc_len, page_end) ==
    IF desc_len < 2 THEN offset ELSE offset + desc_len

\* lines 281-284 and 320: where one pass of the descriptor loop leaves the
\* offset.
DescAdvance(offset, desc_len, page_end) ==
    IF desc_len < 2 THEN page_end ELSE offset + desc_len

\* The walk so far: n entries written, the page-header indexes read, the
\* descriptors visited with the indexes read for each, and for every pass
\* of either loop the offset before and after it.
NoWalk == [n |-> 0, headers |-> {}, seen |-> <<>>, steps |-> <<>>]

\* lines 280-321 again, keeping the walk.
RECURSIVE VisitDescriptors(_, _, _, _, _, _, _)
VisitDescriptors(buf, type, desc_len, offset, page_end, max_statuses, w) ==
    IF offset + desc_len <= page_end /\ w.n < max_statuses
    THEN LET next == DescAdvance(offset, desc_len, page_end)
             step == [loop |-> "descriptor", desc_len |-> desc_len,
                      from |-> offset, to |-> next]
         IN  IF desc_len < 2
             THEN [offset |-> next,
                   w |-> [w EXCEPT !.steps = Append(@, step)]]
             ELSE VisitDescriptors(
                      buf, type, desc_len, next, page_end, max_statuses,
                      [w EXCEPT
                          !.n = IF SkipsDescriptor(buf, type, offset, desc_len)
                                THEN @ ELSE @ + 1,
                          !.seen = Append(@,
                              [at |-> offset, len |-> desc_len,
                               reads |-> DescriptorReads(buf, type, offset,
                                                         desc_len)]),
                          !.steps = Append(@, step)])
    ELSE [offset |-> offset, w |-> w]

\* lines 259-324 again, keeping the walk.
RECURSIVE VisitPages(_, _, _, _, _)
VisitPages(buf, offset, end, max_statuses, w) ==
    IF offset + 8 <= end /\ w.n < max_statuses
    THEN LET desc_len == 256 * ByteAt(buf, offset + 2) + ByteAt(buf, offset + 3)
             page_bytes == 65536 * ByteAt(buf, offset + 5)
                           + 256 * ByteAt(buf, offset + 6) + ByteAt(buf, offset + 7)
             first == offset + 8
             w1 == [w EXCEPT !.headers = @ \cup {offset, offset + 2, offset + 3,
                                                 offset + 5, offset + 6,
                                                 offset + 7}]
         IN  IF desc_len = 0 \/ page_bytes = 0
             THEN [w1 EXCEPT !.steps =
                      Append(@, [loop |-> "page", desc_len |-> desc_len,
                                 from |-> offset, to |-> first])]
             ELSE LET page_end == Min(first + page_bytes, end)
                      r == VisitDescriptors(buf, ByteAt(buf, offset) % 16,
                                            desc_len, first, page_end,
                                            max_statuses, w1)
                      next == IF r.offset < page_end THEN page_end
                              ELSE r.offset
                  IN  VisitPages(buf, next, end, max_statuses,
                                 [r.w EXCEPT !.steps =
                                     Append(@, [loop |-> "page",
                                                desc_len |-> desc_len,
                                                from |-> offset,
                                                to |-> next])])
    ELSE w

\* What a call reads of its response buffer: nothing before the command
\* succeeded, then the header (lines 235-237), then the pages.
ResReads(i) ==
    IF ~i.calloc_ok \/ i.exec_rc # 0 THEN NoWalk
    ELSE IF ReportBytes(i.buf) = 0 \/ ~i.has_statuses
    THEN [NoWalk EXCEPT !.headers = {0, 1, 2, 3, 5, 6, 7}]
    ELSE VisitPages(i.buf, 8,
                    ReportEnd(ReportBytes(i.buf), ResAlloc(i.count)),
                    i.max_statuses,
                    [NoWalk EXCEPT !.headers = {0, 1, 2, 3, 5, 6, 7}])

\* Element descriptors a changer sends. 12 bytes: address, flags, three
\* bytes unused here, additional sense code and qualifier, the source-valid
\* byte and the source address.
DescFull == <<0, 16, 1, 0, 0, 0, 0, 0, 0, 128, 0, 32>>
DescEmpty == <<0, 17, 0, 0, 0, 0, 0, 0, 0, 0, 0, 0>>
DescZero == <<0, 0, 0, 0, 0, 0, 0, 0, 0, 0, 0, 0>>
DescExcept == <<0, 18, 5, 0, 0, 0, 0, 0, 0, 0, 1, 0>>
Descs12 == {DescFull, DescEmpty, DescZero, DescExcept}

\* 16-byte descriptors, one of them zero in its first 12 bytes only.
DescLong == <<1, 0, 1, 0, 0, 0, 0, 0, 0, 128, 0, 16, 0, 0, 0, 0>>
DescZeroHead == <<0, 0, 0, 0, 0, 0, 0, 0, 0, 0, 0, 0, 0, 7, 0, 0>>

\* 20-byte descriptors with an address and a flags byte.
Desc20(address, flags) ==
    BE16Bytes(address) \o <<flags>> \o [k \in 1..17 |-> 0]

\* 4-byte descriptors.
DescShortZero == <<0, 0, 0, 0>>
DescShortFull == <<0, 17, 1, 0>>

\* An element status page as the device lays it out; page_bytes is the
\* byte count its header declares.
Page(type, desc_len, descs) ==
    [type |-> type, desc_len |-> desc_len, descs |-> descs,
     page_bytes |-> Len(Flatten(descs))]

ElementTypes == {ELEM_TRANSPORT, ELEM_STORAGE, ELEM_IE, ELEM_DRIVE}

SinglePages ==
    {<<Page(t, 12, ds)>> :
        t \in ElementTypes,
        ds \in {<<a>> : a \in Descs12} \cup {<<a, b>> : a, b \in Descs12}}

OtherPages ==
    { <<Page(ELEM_STORAGE, 12, <<DescFull, DescZero, DescEmpty>>)>>,
      <<Page(ELEM_STORAGE, 20, <<Desc20(16, 1), Desc20(17, 0)>>)>>,
      <<Page(ELEM_STORAGE, 12, <<DescFull, DescEmpty>>),
        Page(ELEM_DRIVE, 12, <<DescZero>>)>>,
      <<Page(ELEM_TRANSPORT, 12, <<DescZero>>),
        Page(ELEM_STORAGE, 12, <<DescZero, DescExcept>>)>>,
      <<Page(ELEM_STORAGE, 16, <<DescZeroHead, DescLong>>)>>,
      <<Page(ELEM_DRIVE, 16, <<DescZeroHead, DescLong>>)>>,
      <<Page(ELEM_STORAGE, 4, <<DescShortZero, DescShortFull>>)>>,
      <<Page(ELEM_IE, 4, <<DescShortZero, DescShortFull>>)>>,
      <<Page(ELEM_STORAGE, 2, <<<<0, 0>>, <<0, 5>>>>)>>,
      <<Page(16 + ELEM_STORAGE, 12, <<DescZero, DescFull>>)>>,
      <<[Page(ELEM_STORAGE, 12, <<DescFull, DescEmpty>>)
            EXCEPT !.page_bytes = 12]>>,
      <<[Page(ELEM_STORAGE, 12, <<DescFull, DescEmpty>>)
            EXCEPT !.page_bytes = 0]>>,
      <<[Page(ELEM_STORAGE, 12, <<DescFull, DescEmpty>>)
            EXCEPT !.desc_len = 0]>>,
      <<[Page(ELEM_STORAGE, 12, <<DescFull, DescEmpty>>)
            EXCEPT !.desc_len = 1]>> }

ResPages == SinglePages \cup OtherPages

\* A response that fills the allocation of a call with count = 8 to the
\* last byte: one drive descriptor as long as it takes, then a storage
\* page with one two-byte descriptor of zeros.
FillingPages ==
    <<Page(ELEM_DRIVE, ResAlloc(8) - 26,
           <<BE16Bytes(256) \o <<1>> \o [k \in 1..(ResAlloc(8) - 29) |-> 0]>>),
      Page(ELEM_STORAGE, 2, <<<<0, 0>>>>)>>

EncodePage(pg) ==
    <<pg.type, 0>> \o BE16Bytes(pg.desc_len) \o <<0>>
        \o BE24Bytes(pg.page_bytes) \o Flatten(pg.descs)

EncodePages(pages) == Flatten([k \in 1..Len(pages) |-> EncodePage(pages[k])])

EncodeResponse(first_elem, num_elem, report_bytes, pages) ==
    BE16Bytes(first_elem) \o BE16Bytes(num_elem) \o <<0>>
        \o BE24Bytes(report_bytes) \o EncodePages(pages)

RECURSIVE SumLen(_)
SumLen(pages) ==
    IF pages = <<>> THEN 0 ELSE Len(Head(pages).descs) + SumLen(Tail(pages))

\* The element counts and report lengths a header may carry for the pages:
\* the true ones, and others.
NumElems(pages) == {SumLen(pages), 1, 0}
ReportLens(pages) ==
    LET n == Len(EncodePages(pages)) IN {n, 0, n - 4, n + 16}

MaxStatuses == {0, 1, 2, 8}

\* A call's inputs: the arguments, whether calloc succeeds, the return code
\* of changer_execute_cdb and the response the device wrote.
ResInput(element_type, start, count, has_statuses, max_statuses, calloc_ok,
         exec_rc, pages, num_elem, report_bytes) ==
    [element_type |-> element_type, start |-> start, count |-> count,
     has_statuses |-> has_statuses, max_statuses |-> max_statuses,
     calloc_ok |-> calloc_ok, exec_rc |-> exec_rc, pages |-> pages,
     num_elem |-> num_elem, report_bytes |-> report_bytes,
     buf |-> EncodeResponse(start, num_elem, report_bytes, pages)]

PlainPages == <<Page(ELEM_STORAGE, 12, <<DescFull, DescEmpty>>)>>

ResInputs ==
    {ResInput(pages[1].type % 16, 0, 8, TRUE, m, TRUE, 0, pages, n, r) :
        <<pages, m, n, r>> \in
           {x \in ResPages \X MaxStatuses \X (0..3) \X (0..80) :
               x[3] \in NumElems(x[1]) /\ x[4] \in ReportLens(x[1])}}
    \cup
    {ResInput(t, st, cnt, hs, 8, ok, rc, PlainPages, 2, 40) :
        <<t, st, cnt, hs, ok, rc>> \in
           {x \in (0..4) \X {0, 16} \X {8, 200, 3000} \X BOOLEAN \X BOOLEAN
                     \X {0, -1} :
               \/ x[4] /\ x[5] /\ x[6] = 0
               \/ x[1] = ELEM_STORAGE /\ x[2] = 0 /\ x[3] = 8}}
    \cup
    {ResInput(ELEM_DRIVE, 0, 8, TRUE, 8, TRUE, 0, FillingPages, 2,
              ResAlloc(8) - 8)}

\* scsi_read_element_status(conn, type, start, count, statuses, max_statuses)
ReadElementStatus ==
    /\ cmd.op = "none"
    /\ \E i \in ResInputs :
          LET r == scsi_read_element_status(i)
          IN  cmd' = [op |-> "read_element_status", in |-> i, rc |-> r.rc,
                      cdbs |-> r.cdbs, out |-> r.statuses]
    /\ UNCHANGED <<connVars, msVars, mnt, loc>>

-----------------------------------------------------------------------------
(* scsi.c: INQUIRY, TEST UNIT READY, MOVE MEDIUM, INITIALIZE ELEMENT STATUS *)

SPACE == 32
NUL == 0

\* scsi_inquiry, lines 110-118: from index n down, every ' ' becomes '\0'
\* until another byte is met.
RECURSIVE TrimFrom(_, _)
TrimFrom(field, n) ==
    IF n >= 1 /\ field[n] = SPACE
    THEN TrimFrom([field EXCEPT ![n] = NUL], n - 1)
    ELSE field

\* The C string held by a char array that ends with a terminator: the bytes
\* before the first '\0'.
CString(chars) ==
    LET nuls == {k \in 1..Len(chars) : chars[k] = NUL}
    IN  IF nuls = {} THEN chars
        ELSE SubSeq(chars, 1, (CHOOSE k \in nuls : \A j \in nuls : k <= j) - 1)

\* lines 102-118 for one field: copy, terminate, trim.
InquiryField(bytes) == CString(TrimFrom(bytes, Len(bytes)))

InquiryCdb == <<18, 0, 0, 0, 96, 0>>

\* scsi_inquiry: the return code, the CDBs passed to changer_execute_cdb and
\* the DeviceInfo written, if any.
scsi_inquiry(i) ==
    [rc |-> i.exec_rc,
     cdbs |-> <<InquiryCdb>>,
     info |-> IF i.exec_rc = 0 /\ i.has_info
              THEN <<[device_type |-> i.byte0 % 32,
                      vendor |-> InquiryField(i.vendor),
                      product |-> InquiryField(i.product),
                      revision |-> InquiryField(i.revision)]>>
              ELSE <<>>]

\* scsi_test_unit_ready
scsi_test_unit_ready(i) == [rc |-> i.exec_rc, cdbs |-> <<TurCdb>>]

MoveMediumCdb(transport, source, dest) ==
    <<165, 0>> \o BE16Bytes(transport) \o BE16Bytes(source)
        \o BE16Bytes(dest) \o <<0, 0, 0, 0>>

\* MOVE MEDIUM sent again when the first attempt fails.
scsi_move_medium_retrying(i) ==
    [rc |-> i.exec_rc,
     cdbs |-> IF i.exec_rc # 0
              THEN <<MoveMediumCdb(i.transport, i.source, i.dest),
                     MoveMediumCdb(i.transport, i.source, i.dest)>>
              ELSE <<MoveMediumCdb(i.transport, i.source, i.dest)>>]

\* scsi_move_medium
scsi_move_medium(i) ==
    [rc |-> i.exec_rc,
     cdbs |-> <<MoveMediumCdb(i.transport, i.source, i.dest)>>]

InitElementStatusCdb == <<7, 0, 0, 0, 0, 0>>

\* scsi_init_element_status
scsi_init_element_status(i) ==
    [rc |-> i.exec_rc, cdbs |-> <<InitElementStatusCdb>>]

\* INQUIRY fields a device sends: the letter A (65), spaces and NUL bytes.
FieldBytes == {65, SPACE, NUL}
Fields4 == [1..4 -> FieldBytes]
Fields3 == [1..3 -> FieldBytes]
PlainVendor == <<65, 65, 65, SPACE, SPACE, SPACE, SPACE, SPACE>>
PlainProduct == <<65, 65>> \o [k \in 1..14 |-> SPACE]
PlainRevision == <<65, 65, SPACE, SPACE>>

InquiryInput(exec_rc, has_info, byte0, vendor, product, revision) ==
    [exec_rc |-> exec_rc, has_info |-> has_info, byte0 |-> byte0,
     vendor |-> vendor, product |-> product, revision |-> revision]

InquiryInputs ==
    {InquiryInput(0, TRUE, 8, PlainVendor, PlainProduct, r) : r \in Fields4}
    \cup {InquiryInput(0, TRUE, 8, v \o pad, PlainProduct, PlainRevision) :
             v \in Fields4,
             pad \in {<<SPACE, SPACE, SPACE, SPACE>>, <<NUL, NUL, NUL, NUL>>}}
    \cup {InquiryInput(0, TRUE, 8, PlainVendor,
                       pr \o [k \in 1..13 |-> SPACE], PlainRevision) :
             pr \in Fields3}
    \cup {InquiryInput(rc, hi, b, PlainVendor, PlainProduct, PlainRevision) :
             rc \in {0, -1}, hi \in BOOLEAN, b \in {8, 136}}

ExecRcs == {0, -1}
MoveInputs ==
    [exec_rc : ExecRcs, transport : {0, 224}, source : {16, 256},
     dest : {17, 256}]

Inquiry ==
    /\ cmd.op = "none"
    /\ \E i \in InquiryInputs :
          LET r == scsi_inquiry(i)
          IN  cmd' = [op |-> "inquiry", in |-> i, rc |-> r.rc,
                      cdbs |-> r.cdbs, out |-> r.info]
    /\ UNCHANGED <<connVars, msVars, mnt, loc>>

TestUnitReady ==
    /\ cmd.op = "none"
    /\ \E i \in [exec_rc : ExecRcs] :
          LET r == scsi_test_unit_ready(i)
          IN  cmd' = [op |-> "test_unit_ready", in |-> i, rc |-> r.rc,
                      cdbs |-> r.cdbs, out |-> <<>>]
    /\ UNCHANGED <<connVars, msVars, mnt, loc>>

MoveMedium ==
    /\ cmd.op = "none"
    /\ \E i \in MoveInputs :
          LET r == scsi_move_medium(i)
          IN  cmd' = [op |-> "move_medium", in |-> i, rc |-> r.rc,
                      cdbs |-> r.cdbs, out |-> <<>>]
    /\ UNCHANGED <<connVars, msVars, mnt, loc>>

InitElementStatus ==
    /\ cmd.op = "none"
    /\ \E i \in [exec_rc : ExecRcs] :
          LET r == scsi_init_element_status(i)
          IN  cmd' = [op |-> "init_element_status", in |-> i, rc |-> r.rc,
                      cdbs |-> r.cdbs, out |-> <<>>]
    /\ UNCHANGED <<connVars, msVars, mnt, loc>>

\* scsi_sense_string(SenseData *sense); the pointer is <<>> for NULL and
\* <<s>> for a pointer to s.  Keys: 2 NOT READY, 5 ILLEGAL REQUEST, 6 UNIT ATTENTION,
\* 11 ABORTED COMMAND; asc 4, 33 (0x21), 36 (0x24), 40 (0x28), 41 (0x29),
\* 58 (0x3A), 59 (0x3B); ascq 13 (0x0D), 14 (0x0E).
scsi_sense_string(sense) ==
    IF sense = <<>> \/ ~sense[1].valid THEN "No sense data"
    ELSE CASE sense[1].sense_key = 0 -> "No sense"
           [] sense[1].sense_key = 2 ->
                IF sense[1].asc = 4 /\ sense[1].ascq = 0
                THEN "Not ready, cause not reportable"
                ELSE IF sense[1].asc = 4 /\ sense[1].ascq = 1 THEN "Becoming ready"
                ELSE IF sense[1].asc = 4 /\ sense[1].ascq = 2
                THEN "Need INITIALIZE ELEMENT STATUS"
                ELSE IF sense[1].asc = 4 /\ sense[1].ascq = 3
                THEN "Manual intervention required"
                ELSE IF sense[1].asc = 58 THEN "Medium not present"
                ELSE "Not ready"
           [] sense[1].sense_key = 5 ->
                IF sense[1].asc = 33 THEN "Invalid element address"
                ELSE IF sense[1].asc = 36 THEN "Invalid field in CDB"
                ELSE IF sense[1].asc = 59
                THEN IF sense[1].ascq = 13 THEN "Medium destination full"
                     ELSE IF sense[1].ascq = 14 THEN "Medium source empty"
                     ELSE "Element position error"
                ELSE "Illegal request"
           [] sense[1].sense_key = 6 ->
                IF sense[1].asc = 40 THEN "Medium may have changed"
                ELSE IF sense[1].asc = 41 THEN "Power on or reset"
                ELSE "Unit attention"
           [] sense[1].sense_key = 11 ->
                IF sense[1].asc = 59
                THEN IF sense[1].ascq = 13 THEN "Medium destination full"
                     ELSE IF sense[1].ascq = 14 THEN "Medium source empty"
                     ELSE "Element position error"
                ELSE "Aborted command"
           [] OTHER -> "Unknown error"

\* The sense data scsi_sense_string is applied to: the keys, asc and ascq
\* the function tests, and one more of each.
SenseInputs ==
    {<<>>} \cup
    {<<s>> : s \in [sense_key : {0, 2, 3, 5, 6, 11},
                    asc : {0, 4, 33, 36, 40, 41, 58, 59},
                    ascq : {0, 1, 2, 3, 13, 14, 15}, valid : BOOLEAN]}

SenseString ==
    /\ cmd.op = "none"
    /\ \E sense \in SenseInputs :
          cmd' = [op |-> "sense_string", in |-> sense, rc |-> 0,
                  cdbs |-> <<>>, out |-> <<scsi_sense_string(sense)>>]
    /\ UNCHANGED <<connVars, msVars, mnt, loc>>

-----------------------------------------------------------------------------
(* mount.c: mount, unmount and eject through Disk Arbitration, in the      *)
(* library (src/CChangerLib/mount.c) and in the application bridge         *)
(* (src/Discbot/Bridging/mount.c)                                          *)

Impls == {"lib", "bridge"}
DaOps == {"mount", "unmount", "eject"}

\* The largest timeout, in seconds, passed to mount_disc.
MaxTimeout == 2

\* The wait of unmount and eject, in seconds.
DaWaitSeconds == 30

\* Refusal statuses of Disk Arbitration as the int the code casts them to:
\* kDAReturnBusy and kDAReturnNotPermitted.
DissentStatuses == {-119930878, -119930872}

\* What the disc description holds under the volume-path key when it is
\* read: nothing, or the mount point.
VolumePaths == {"", "/Volumes/XYZ"}

\* DACallbackContext of both files: dissenter is <<>> for a null reference
\* and <<status>> for a dissenter object (library); result is the bridge's
\* int.
ZeroCtx == [done |-> FALSE, dissenter |-> <<>>, result |-> 0, mount_point |-> ""]

\* CChangerLib/mount.c, mount_callback
mount_callback(ctx, dissenter, path) ==
    [ctx EXCEPT !.dissenter = dissenter,
                !.mount_point = IF dissenter = <<>> THEN path ELSE @,
                !.done = TRUE]

\* CChangerLib/mount.c, unmount_callback
unmount_callback(ctx, dissenter) ==
    [ctx EXCEPT !.dissenter = dissenter, !.done = TRUE]

\* Bridging/mount.c, da_mount_callback
da_mount_callback(ctx, dissenter) ==
    [ctx EXCEPT !.result = IF dissenter # <<>> THEN dissenter[1] ELSE 0,
                !.done = TRUE]

\* Bridging/mount.c, da_unmount_callback
da_unmount_callback(ctx, dissenter) ==
    [ctx EXCEPT !.result = IF dissenter # <<>> THEN dissenter[1] ELSE 0,
                !.done = TRUE]

\* The callback each call registers.
Callback(impl, op, ctx, dissenter, path) ==
    IF impl = "lib"
    THEN IF op = "mount" THEN mount_callback(ctx, dissenter, path)
         ELSE unmount_callback(ctx, dissenter)
    ELSE IF op = "mount" THEN da_mount_callback(ctx, dissenter)
         ELSE da_unmount_callback(ctx, dissenter)

\* The seconds a call waits for its callback.
WaitLimit(op, timeout) == IF op = "mount" THEN timeout ELSE DaWaitSeconds

\* CChangerLib/mount.c, mount_disc after the wait: the path returned,
\* "NULL" for none.
mount_disc_lib(ctx) ==
    IF ~ctx.done THEN "NULL"
    ELSE IF ctx.dissenter # <<>> THEN "NULL"
    ELSE IF ctx.mount_point # "" THEN ctx.mount_point
    ELSE "NULL"

\* Bridging/mount.c, mount_disc after the wait with the completion flag
\* left unread; query is what mount_get_mount_point finds.
mount_disc_bridge_unwaited(ctx, query) ==
    IF ctx.result # 0 THEN "NULL"
    ELSE IF query # "" THEN query ELSE "NULL"

\* Bridging/mount.c, mount_disc after the wait.
mount_disc_bridge(ctx, query) ==
    IF ~ctx.done \/ ctx.result # 0 THEN "NULL"
    ELSE IF query # "" THEN query ELSE "NULL"

\* CChangerLib/mount.c, mount_unmount_disc and mount_eject_disc after the
\* wait; status is what DADissenterGetStatus(ctx.dissenter) reads.
unmount_disc_lib(ctx, status) ==
    IF ~ctx.done THEN -1
    ELSE IF ctx.dissenter # <<>> THEN status
    ELSE 0

\* Bridging/mount.c, mount_unmount_disc and mount_eject_disc after the wait.
unmount_disc_bridge(ctx) == IF ctx.done THEN ctx.result ELSE -1

\* The values a read of the dissenter's status can give once the callback
\* that received the dissenter has returned and Disk Arbitration has
\* released the object: the status still in the freed memory, or what the
\* memory holds after reuse.
DissenterStatusAfterCallback(dissenter) == {dissenter[1], 0}

\* Where DADissenterGetStatus is called on the dissenter a callback
\* receives: the bridge's callbacks call it themselves, the library's only
\* store the reference.
CallbackDerefs(impl, dissenter) ==
    IF impl = "bridge" /\ dissenter # <<>> THEN <<"in_callback">> ELSE <<>>

\* Where it is called after the wait: the library calls it on the stored
\* reference once the disc and the session are released, in all three
\* operations; the bridge returns the stored result.
ReturnDerefs(impl, ctx) ==
    IF impl = "lib" /\ ctx.done /\ ctx.dissenter # <<>>
    THEN <<"after_session_release">> ELSE <<>>

\* Device identifiers a caller passes, as path components: "disk3" and
\* "/dev/disk3".
BsdNames == {<<"disk3">>, <<"/dev/", "disk3">>}

\* CChangerLib/mount.c: name = bsd_name, advanced past one leading "/dev/".
StripDev(bsd_name) ==
    IF bsd_name # <<>> /\ Head(bsd_name) = "/dev/" THEN Tail(bsd_name)
    ELSE bsd_name

\* Bridging/mount.c: snprintf(dev_path, ..., "/dev/%s", bsd_name).
PrependDev(bsd_name) == <<"/dev/">> \o bsd_name

\* The name each file passes to DADiskCreateFromBSDName.
DaName(impl, bsd_name) ==
    IF impl = "lib" THEN StripDev(bsd_name) ELSE PrependDev(bsd_name)

\* The options of DADiskUnmount in both files.
UnmountOption(impl, force) ==
    IF force THEN "kDADiskUnmountOptionForce" ELSE "kDADiskUnmountOptionDefault"

\* An eject that passes the force flag on as unmount does.
EjectOptionForced(impl, force) ==
    IF force THEN "kDADiskEjectOptionForce" ELSE "kDADiskEjectOptionDefault"

\* The options of DADiskEject: (void)force in the library, the same
\* constant on both arms of the conditional in the bridge.
EjectOption(impl, force) ==
    IF impl = "lib" THEN "kDADiskEjectOptionDefault"
    ELSE IF force THEN "kDADiskEjectOptionDefault"
    ELSE "kDADiskEjectOptionDefault"

DaOption(impl, op, force) ==
    CASE op = "mount" -> "kDADiskMountOptionDefault"
      [] op = "unmount" -> UnmountOption(impl, force)
      [] OTHER -> EjectOption(impl, force)

\* A wait that leaves the session on the run loop when it timed out.
WaitCleanupKeepingSession(timed_out) ==
    IF timed_out THEN <<"release_disk">>
    ELSE <<"release_disk", "unschedule", "release_session">>

\* What both paths out of the wait do, and in both files: CFRelease(disk),
\* DASessionUnscheduleFromRunLoop, CFRelease(session).
WaitCleanup(timed_out) ==
    <<"release_disk", "unschedule", "release_session">>

\* A resolution failure that releases the session still scheduled.
DiskFailedCleanupStillScheduled(impl) == <<"release_session">>

\* DADiskCreateFromBSDName returned NULL: the session is unscheduled and
\* released, in all three operations of both files.
DiskFailedCleanup(impl) == <<"unschedule", "release_session">>

Has(log, event) == \E k \in 1..Len(log) : log[k] = event

\* zombie: an earlier request is still outstanding with its session on the
\* run loop after its call returned; late: the callback of such a request
\* has run; had_timeout: some wait of this process ended by timeout. The
\* three outlive the call.
IdleMount ==
    [pc |-> "idle", impl |-> "lib", op |-> "mount", force |-> FALSE,
     bsd_name |-> <<>>, name |-> <<>>, option |-> "",
     limit |-> 0, elapsed |-> 0, ctx |-> ZeroCtx, fired |-> FALSE,
     delivered |-> <<>>, status_read |-> 0, derefs |-> <<>>,
     ret_path |-> "NULL", ret_code |-> 0, log |-> <<>>,
     zombie |-> FALSE, late |-> FALSE, had_timeout |-> FALSE]

\* mount_disc, mount_unmount_disc, mount_eject_disc up to the wait: the
\* session is created and scheduled, the disc resolved and the request
\* issued with &ctx; a failure before that returns at once.
DaBegin ==
    /\ mnt.pc = "idle"
    /\ \E impl \in Impls, op \in DaOps, force \in BOOLEAN,
          bsd_name \in BsdNames, timeout \in 0..MaxTimeout,
          step \in {"no_session", "no_disk", "issued"} :
          /\ op # "mount" => timeout = 0
          /\ op = "mount" => ~force
          /\ mnt' = [mnt EXCEPT
                !.impl = impl, !.op = op, !.force = force,
                !.bsd_name = bsd_name,
                !.name = IF step = "no_session" THEN <<>>
                         ELSE DaName(impl, bsd_name),
                !.option = IF step = "issued" THEN DaOption(impl, op, force)
                           ELSE "",
                !.limit = WaitLimit(op, timeout),
                !.pc = IF step = "issued" THEN "waiting" ELSE "returned",
                !.ret_code = IF step = "issued" THEN 0 ELSE -1,
                !.log = CASE step = "no_session" -> <<>>
                          [] step = "no_disk" ->
                                <<"create", "schedule">> \o
                                DiskFailedCleanup(impl)
                          [] OTHER -> <<"create", "schedule", "issue">>]
    /\ UNCHANGED <<connVars, msVars, cmd, loc>>

\* One pass of the wait loop of da_runloop_wait (library) or of the
\* while loop of the bridge: the run loop is run for a slice of the time
\* left, during which Disk Arbitration may deliver the completion of this
\* request, or that of an earlier request whose session is still on the
\* run loop.
DaRunLoop ==
    /\ mnt.pc = "waiting"
    /\ ~mnt.ctx.done
    /\ mnt.elapsed < mnt.limit
    /\ \/ \E dissenter \in {<<>>} \cup {<<st>> : st \in DissentStatuses},
             path \in VolumePaths :
             /\ dissenter # <<>> => path = ""
             /\ mnt.op # "mount" => path = ""
             /\ mnt' = [mnt EXCEPT
                   !.ctx = Callback(mnt.impl, mnt.op, mnt.ctx, dissenter, path),
                   !.fired = TRUE,
                   !.delivered = dissenter,
                   !.derefs = @ \o CallbackDerefs(mnt.impl, dissenter),
                   !.elapsed = @ + 1]
       \/ mnt' = [mnt EXCEPT !.elapsed = @ + 1]
       \/ /\ mnt.zombie
          /\ mnt' = [mnt EXCEPT !.late = TRUE, !.zombie = FALSE,
                                !.elapsed = @ + 1]
    /\ UNCHANGED <<connVars, msVars, cmd, loc>>

\* The wait has ended, by completion or by timeout: the disc and the
\* session are released and the result is formed.
DaReturn ==
    /\ mnt.pc = "waiting"
    /\ mnt.ctx.done \/ mnt.elapsed >= mnt.limit
    /\ \E query \in VolumePaths,
          status \in IF mnt.delivered # <<>>
                     THEN DissenterStatusAfterCallback(mnt.delivered)
                     ELSE {0} :
          /\ (mnt.impl = "lib" \/ mnt.op # "mount") => query = ""
          /\ (mnt.impl = "bridge" \/ mnt.op = "mount") =>
                status = IF mnt.delivered # <<>> THEN mnt.delivered[1] ELSE 0
          /\ mnt' = [mnt EXCEPT
                !.pc = "returned",
                !.log = @ \o WaitCleanup(~mnt.ctx.done),
                !.zombie = @ \/ (/\ ~mnt.ctx.done
                                 /\ ~Has(WaitCleanup(~mnt.ctx.done), "unschedule")),
                !.had_timeout = @ \/ ~mnt.ctx.done,
                !.status_read = status,
                !.derefs = @ \o ReturnDerefs(mnt.impl, mnt.ctx),
                !.ret_path =
                    IF mnt.op # "mount" THEN "NULL"
                    ELSE IF mnt.impl = "lib" THEN mount_disc_lib(mnt.ctx)
                    ELSE mount_disc_bridge(mnt.ctx, query),
                !.ret_code =
                    IF mnt.op = "mount" THEN 0
                    ELSE IF mnt.impl = "lib"
                    THEN unmount_disc_lib(mnt.ctx, status)
                    ELSE unmount_disc_bridge(mnt.ctx)]
    /\ UNCHANGED <<connVars, msVars, cmd, loc>>

DaQueries == {"is_mounted", "get_mount_point", "get_volume_name"}

\* mount_is_mounted, mount_get_mount_point, mount_get_volume_name: a
\* session is created (never scheduled), the disc resolved by name, its
\* description copied and the key looked up; value "" is an absent key.
DaQuery ==
    /\ mnt.pc = "idle"
    /\ \E impl \in Impls, op \in DaQueries, bsd_name \in BsdNames,
          step \in {"no_session", "no_disk", "no_desc", "found"},
          value \in VolumePaths :
          /\ step # "found" => value = ""
          /\ mnt' = [mnt EXCEPT
                !.pc = "returned", !.impl = impl, !.op = op,
                !.bsd_name = bsd_name,
                !.name = IF step = "no_session" THEN <<>>
                         ELSE DaName(impl, bsd_name),
                !.log = CASE step = "no_session" -> <<>>
                          [] step = "no_disk" -> <<"create", "release_session">>
                          [] OTHER -> <<"create", "release_disk",
                                        "release_session">>,
                !.ret_path = IF op = "is_mounted" \/ value = "" THEN "NULL"
                             ELSE value,
                !.ret_code = IF op = "is_mounted" /\ value # "" THEN 1 ELSE 0]
    /\ UNCHANGED <<connVars, msVars, cmd, loc>>

\* The caller has used the result; the context was a local of the call.
DaForget ==
    /\ mnt.pc = "returned"
    /\ mnt' = [IdleMount EXCEPT !.zombie = mnt.zombie, !.late = mnt.late,
                                !.had_timeout = mnt.had_timeout]
    /\ UNCHANGED <<connVars, msVars, cmd, loc>>

-----------------------------------------------------------------------------
(* mount.c: the disc locator and mount_wait_for_disc *)

\* The media classes of the I/O registry the locators ask for.
MediaClasses == {"DVD", "CD", "BD"}

\* What the registry holds for a class: no instance, a first instance
\* without a BSD name property, or a first instance with the name given.
RegistryEntries == {"none", "noname", "disk3", "disk4"}

Registries == [MediaClasses -> RegistryEntries]

EmptyRegistry == [k \in MediaClasses |-> "none"]

NameOf(entry) == IF entry \in {"none", "noname"} THEN "NULL" ELSE entry

\* CChangerLib mount_find_dvd_bsd_name: the DVD class, the CD class only
\* when the DVD class gave no service, then the BSD name of that service.
find_lib(reg) ==
    LET service == IF reg["DVD"] # "none" THEN reg["DVD"] ELSE reg["CD"]
    IN  [queried |-> IF reg["DVD"] # "none" THEN <<"DVD">>
                     ELSE <<"DVD", "CD">>,
         ret |-> NameOf(service)]

\* Bridging mount_find_dvd_bsd_name: DVD, CD, BD in turn, returning as
\* soon as a class gave a name.
find_bridge(reg) ==
    IF NameOf(reg["DVD"]) # "NULL"
    THEN [queried |-> <<"DVD">>, ret |-> NameOf(reg["DVD"])]
    ELSE IF NameOf(reg["CD"]) # "NULL"
    THEN [queried |-> <<"DVD", "CD">>, ret |-> NameOf(reg["CD"])]
    ELSE [queried |-> <<"DVD", "CD", "BD">>, ret |-> NameOf(reg["BD"])]

mount_find_dvd_bsd_name(impl, reg) ==
    IF impl = "lib" THEN find_lib(reg) ELSE find_bridge(reg)

\* mount_is_disc_present.
mount_is_disc_present(impl, reg) ==
    mount_find_dvd_bsd_name(impl, reg).ret # "NULL"

\* Time is counted in half seconds from the start of the call.  The
\* library compares whole seconds of the clock, time(NULL) - start, so the
\* fraction of a second at which the call started (frac, in half seconds)
\* matters; the bridge counts its own one-second sleeps.
HalfSecond == 1
WholeSecond == 2

WaitGoesOn(impl, timeout, frac, now) ==
    IF impl = "lib" THEN (frac + now) \div WholeSecond < timeout
    ELSE now \div WholeSecond < timeout

\* usleep(500000) in the library, sleep(1) in the bridge.
WaitSleep(impl) == IF impl = "lib" THEN HalfSecond ELSE WholeSecond

\* The registries a wait is run against: no disc, or a DVD.
WaitRegistries ==
    {EmptyRegistry, [EmptyRegistry EXCEPT !["DVD"] = "disk3"]}

\* present: a disc has been there, for the locator to find, at every
\* moment of the call so far; times: when the locator was asked.
IdleLoc ==
    [pc |-> "idle", impl |-> "lib", op |-> "find", reg |-> EmptyRegistry,
     timeout |-> 0, frac |-> 0, now |-> 0, times |-> <<>>, found |-> <<>>,
     present |-> FALSE, queried |-> <<>>, ret |-> "NULL", rc |-> 0]

\* One call of mount_find_dvd_bsd_name.
FindDisc ==
    /\ loc.pc = "idle"
    /\ \E impl \in Impls, reg \in Registries :
          LET r == mount_find_dvd_bsd_name(impl, reg)
          IN  loc' = [IdleLoc EXCEPT !.pc = "returned", !.impl = impl,
                                     !.reg = reg, !.queried = r.queried,
                                     !.ret = r.ret]
    /\ UNCHANGED <<connVars, msVars, cmd, mnt>>

\* mount_wait_for_disc is entered.
WaitBegin ==
    /\ loc.pc = "idle"
    /\ \E impl \in Impls, timeout \in 0..MaxTimeout, frac \in {0, 1},
          reg \in WaitRegistries :
          /\ impl = "bridge" => frac = 0
          /\ loc' = [IdleLoc EXCEPT
                !.pc = "polling", !.op = "wait", !.impl = impl,
                !.timeout = timeout, !.frac = frac, !.reg = reg,
                !.present = mount_is_disc_present(impl, reg)]
    /\ UNCHANGED <<connVars, msVars, cmd, mnt>>

\* One pass of the loop: the locator is asked; a disc ends the call with
\* 0, otherwise the call sleeps, during which the registry may change.
WaitPoll ==
    /\ loc.pc = "polling"
    /\ WaitGoesOn(loc.impl, loc.timeout, loc.frac, loc.now)
    /\ LET hit == mount_is_disc_present(loc.impl, loc.reg)
       IN  IF hit
           THEN loc' = [loc EXCEPT !.pc = "returned", !.rc = 0,
                                   !.times = Append(@, loc.now),
                                   !.found = Append(@, TRUE)]
           ELSE \E reg \in WaitRegistries :
                   loc' = [loc EXCEPT
                       !.times = Append(@, loc.now),
                       !.found = Append(@, FALSE),
                       !.now = @ + WaitSleep(loc.impl),
                       !.reg = reg,
                       !.present = FALSE]
    /\ UNCHANGED <<connVars, msVars, cmd, mnt>>

\* The loop condition has become false: return -1.
WaitReturn ==
    /\ loc.pc = "polling"
    /\ ~WaitGoesOn(loc.impl, loc.timeout, loc.frac, loc.now)
    /\ loc' = [loc EXCEPT !.pc = "returned", !.rc = -1]
    /\ UNCHANGED <<connVars, msVars, cmd, mnt>>

\* The caller has used the result.
LocForget ==
    /\ loc.pc = "returned"
    /\ loc' = IdleLoc
    /\ UNCHANGED <<connVars, msVars, cmd, mnt>>

-----------------------------------------------------------------------------
(* Specifications *)

InitConn ==
    /\ conn = [c \in Conns |-> ZeroConn]
    /\ g_last_sense = ZeroSense
    /\ call = NoCall
    /\ stale = [c \in Conns |-> 0]
    /\ phase = [c \in Conns |-> "new"]
    /\ acquired = [c \in Conns |-> {}]
    /\ released = [c \in Conns |-> <<>>]
    /\ connLog = [c \in Conns |-> <<>>]
    /\ last = NoLast
    /\ peak = [c \in Conns |-> 0]

InitMap ==
    /\ map = ZeroMap
    /\ ms = [op |-> "new", in |-> NoInput, rc |-> 0, cdbs |-> <<>>,
             dir |-> DIR_NONE, buffer_len |-> 0]

NoCmd == [op |-> "none", in |-> <<>>, rc |-> 0, cdbs |-> <<>>, out |-> <<>>]

InitCmd == cmd = NoCmd

\* The caller has used the result of the latest command; the commands keep
\* nothing from one call to the next.
CmdForget ==
    /\ cmd.op # "none"
    /\ cmd' = NoCmd
    /\ UNCHANGED <<connVars, msVars, mnt, loc>>

InitMount == mnt = IdleMount

InitLoc == loc = IdleLoc

Init == InitConn /\ InitMap /\ InitCmd /\ InitMount /\ InitLoc

\* The connection specification: the public calls of sbp2.c on one
\* connection under every outcome of the attach, and the run loop's callbacks.
One == {"A"}

Next ==
    \/ \E c \in One : Connect(c, BOOLEAN, KernelOutcomes, Sbp2Outcomes)
    \/ \E c \in One : Disconnect(c)
    \/ \E c \in One : ExecRejected(c, Args)
    \/ \E c \in One : ExecScsiTask(c, Args, KernelResults)
    \/ \E c \in One : Sbp2Begin(c, Args)
    \/ StatusOwn(Sbp2Results)
    \/ \E c \in One : StatusStale(c, Sbp2Results)
    \/ \E c \in One : StaleLost(c)
    \/ Sbp2WaitTimeout
    \/ Sbp2Return

Spec == Init /\ [][Next]_vars

\* The two-connection specification: the same calls on two connections of
\* one process, each attach succeeding on the kernel backend (a nub is
\* found) or on the SBP-2 backend (no nub is found), every CDB a no-data
\* command that the device completes with GOOD or with one of two CHECK
\* CONDITIONs.
ArgsTwo == {<<DIR_NONE, 0>>}
KernelResultsTwo ==
    {r \in KernelResults : r.kr = "success" /\ r.sense.fmt # "descriptor"}
Sbp2ResultsTwo == {r \in Sbp2Results : r.sense.fmt # "descriptor"}

NextTwo ==
    \/ \E c \in Conns : Connect(c, BOOLEAN, {"ok_shared"}, {"ok"})
    \/ \E c \in Conns : Disconnect(c)
    \/ \E c \in Conns : ExecRejected(c, ArgsTwo)
    \/ \E c \in Conns : ExecScsiTask(c, ArgsTwo, KernelResultsTwo)
    \/ \E c \in Conns : Sbp2Begin(c, ArgsTwo)
    \/ StatusOwn(Sbp2ResultsTwo)
    \/ \E c \in Conns : StatusStale(c, Sbp2ResultsTwo)
    \/ \E c \in Conns : StaleLost(c)
    \/ Sbp2WaitTimeout
    \/ Sbp2Return

SpecTwo == Init /\ [][NextTwo]_vars

\* The element-map specification: scsi_mode_sense_element and
\* element_map_free on one caller-owned ElementMap.
NextMap == ModeSense \/ MapFree \/ MapNew

SpecMap == Init /\ [][NextMap]_vars

\* The command specification: the commands of scsi.c other than MODE SENSE,
\* each against every sampled answer of the connection and the device.
NextCmd ==
    \/ TestUnitReady
    \/ Inquiry
    \/ ReadElementStatus
    \/ MoveMedium
    \/ InitElementStatus
    \/ SenseString
    \/ CmdForget

SpecCmd == Init /\ [][NextCmd]_vars

\* The disk-arbitration specification: mount, unmount and eject of both
\* files, one call at a time, under every timing of the completion.
NextMount == DaBegin \/ DaQuery \/ DaRunLoop \/ DaReturn \/ DaForget

SpecMount == Init /\ [][NextMount]_vars

\* The locator specification: mount_find_dvd_bsd_name against every
\* registry, and mount_wait_for_disc under every timing of a disc's arrival.
NextLoc == FindDisc \/ WaitBegin \/ WaitPoll \/ WaitReturn \/ LocForget

SpecLoc == Init /\ [][NextLoc]_vars

-----------------------------------------------------------------------------
(* Properties *)

Gone == {"new", "failed", "disconnected", "disconnected_again"}

\* C1: changer_execute_cdb on a connection that was never connected, whose
\* changer_connect failed, or that has been disconnected returns -1 and
\* creates no SCSI task, creates no ORB and submits nothing.
C1_ExecOnlyWhenConnected ==
    (last.op = "exec" /\ phase[last.c] \in Gone)
        => (last.rc = -1 /\ ~last.task /\ ~last.orb /\ ~last.submitted)

\* C1 witness: a CDB was refused on a disconnected connection whose backend
\* tag still names the kernel backend.
C1_Witness ==
    /\ last.op = "exec" /\ last.rc = -1
    /\ phase[last.c] = "disconnected"
    /\ conn[last.c].backend = BACKEND_SCSITASK

NoDuplicates(s) == \A i, j \in 1..Len(s) : i # j => s[i] # s[j]

ServiceHandles == {"nub", "lun_service"}
BackendResources == {"lease", "scsi_device", "login", "lun"}

\* Every release is of a resource acquired by this connection, no resource
\* is released twice, and no backend resource is released after the service
\* handle.
ReleasedOnceInOrder(c) ==
    /\ NoDuplicates(released[c])
    /\ \A i \in 1..Len(released[c]) : released[c][i] \in acquired[c]
    /\ \A i, j \in 1..Len(released[c]) :
          (i < j /\ released[c][i] \in ServiceHandles)
              => released[c][j] \notin BackendResources

\* A changer_disconnect on an already disconnected connection changes neither
\* the struct nor the releases.
RepeatedDisconnectIsNoOp(c) ==
    (phase[c] \in {"disconnected", "disconnected_again"}
       /\ last'.op = "disconnect" /\ last'.c = c)
        => (conn'[c] = conn[c] /\ released'[c] = released[c])

\* C2: over any number of changer_disconnect calls every owned resource is
\* released at most once, backend resources before the service handle, and
\* the second and later calls change nothing.
C2_DisconnectIdempotent ==
    /\ [](\A c \in Conns : ReleasedOnceInOrder(c))
    /\ [][\A c \in Conns : RepeatedDisconnectIsNoOp(c)]_vars

\* C2 witness: a connection attached through the kernel backend with the
\* lease has been disconnected twice and released lease, device and nub.
C2_Witness ==
    \E c \in Conns :
       /\ phase[c] = "disconnected_again"
       /\ released[c] = <<"task_service", "lease", "scsi_device", "nub">>

\* C3: changer_connect tries the kernel backend first (when a nub was found),
\* tries SBP-2 only when no nub was found or the kernel attach failed, tries
\* each backend at most once, returns 0 as soon as one attaches and returns
\* -1 with the connection not connected when both fail.
C3_ConnectOrder ==
    last.op = "connect" =>
       LET c == last.c
           log == connLog[c]
       IN  /\ log \in {<<"scsitask">>, <<"sbp2">>, <<"scsitask", "sbp2">>}
           /\ (log[1] = "scsitask") <=> ("nub" \in acquired[c])
           /\ Len(log) = 2 => "scsi_device" \notin acquired[c]
           /\ log = <<"scsitask">> =>
                 (last.rc = 0 /\ conn[c].backend = BACKEND_SCSITASK)
           /\ last.rc = 0 =>
                 /\ conn[c].connected
                 /\ log[Len(log)] = "sbp2" => conn[c].backend = BACKEND_SBP2
           /\ last.rc # 0 =>
                 /\ last.rc = -1
                 /\ log[Len(log)] = "sbp2"
                 /\ ~conn[c].connected
                 /\ conn[c].backend = BACKEND_NONE

\* C3 witness: the kernel attach failed and the SBP-2 attach then succeeded.
C3_Witness ==
    /\ last.op = "connect" /\ last.rc = 0
    /\ connLog[last.c] = <<"scsitask", "sbp2">>
    /\ conn[last.c].backend = BACKEND_SBP2

C5_ValidIffLastFailed ==
    scsi_get_last_sense.valid
        <=> (last.status = "CHECK_CONDITION" /\ last.sense.fmt = "fixed")

\* C6: after a CDB that the device completed with a non-GOOD status (and
\* fixed-format sense), on either backend, the call has returned an error
\* and the slot is valid and holds that command's (key, asc, ascq).
C6_SenseOfFailedCommand ==
    (last.op = "exec" /\ last.submitted /\ last.status = "CHECK_CONDITION"
       /\ last.sense.fmt = "fixed")
        => /\ last.rc = -1
           /\ scsi_get_last_sense.valid
           /\ <<scsi_get_last_sense.sense_key, scsi_get_last_sense.asc,
                scsi_get_last_sense.ascq>> = Triple(last.sense)

\* The sense a caller holding connection a reads.
SenseFor(a) == scsi_get_last_sense

\* C7: a CDB executed on one connection does not change the sense reported
\* for another connection.
C7_SensePerConnection ==
    [][\A a \in Conns :
          (last'.op = "exec" /\ last'.c # a) => SenseFor(a)' = SenseFor(a)]_vars

\* C8: a connection never has more than one CDB at the device, and every
\* call that saw a completion saw that of the CDB it submitted itself.
C8_StrictlySerial ==
    /\ \A c \in Conns : peak[c] <= 1
    /\ (last.op = "exec" /\ last.submitted /\ last.from # "timeout")
          => last.from = "own"

\* C9: a Read or Write call with a zero-length buffer is rejected before
\* anything is created or submitted.
C9_ZeroLengthRejected ==
    (last.op = "exec" /\ last.dir \in {DIR_READ, DIR_WRITE} /\ last.len = 0)
        => (last.rc = -1 /\ ~last.task /\ ~last.orb /\ ~last.submitted)

\* C10: after an accepted MODE SENSE response, slot_count is the reported
\* number of storage elements and slots[i] - slots[0] = i as integers.
C10_SlotsContiguous ==
    (ms.op = "mode_sense" /\ ms.rc = 0)
        => /\ map.slot_count = BE16(ms.in.num_storage)
           /\ Len(map.slots) = map.slot_count
           /\ \A i \in 0..(map.slot_count - 1) :
                 map.slots[i + 1] - map.slots[1] = i

\* C11: after a successful scsi_mode_sense_element the map holds the page's
\* transport and drive addresses, and has_ie is true exactly when the page
\* reports a non-zero import/export count, ie then being its first address.
C11_MapReflectsPage ==
    (ms.op = "mode_sense" /\ ms.rc = 0)
        => /\ map.transport = BE16(ms.in.transport)
           /\ map.drive = BE16(ms.in.drive)
           /\ map.has_ie <=> (BE16(ms.in.num_ie) > 0)
           /\ map.has_ie => map.ie = BE16(ms.in.first_ie)

\* The READ ELEMENT STATUS call of cmd got a response and a statuses array.
ResParsed ==
    /\ cmd.op = "read_element_status"
    /\ cmd.in.calloc_ok /\ cmd.in.exec_rc = 0

\* C12: the count returned and the number of entries written exceed neither
\* max_statuses nor the element count of the response header.
C12_CountBounded ==
    ResParsed
        => /\ cmd.rc <= cmd.in.max_statuses
           /\ Len(cmd.out) <= cmd.in.max_statuses
           /\ cmd.rc <= cmd.in.num_elem
           /\ Len(cmd.out) <= cmd.in.num_elem

\* The descriptors of a response in response order, each with its page's
\* type code, its offset in the response and its bytes.
RECURSIVE DescriptorsFrom(_, _)
DescriptorsFrom(pages, offset) ==
    IF pages = <<>> THEN <<>>
    ELSE LET pg == Head(pages)
         IN  [d \in 1..Len(pg.descs) |->
                 [type |-> pg.type % 16,
                  at |-> offset + 8 + (d - 1) * pg.desc_len,
                  bytes |-> pg.descs[d]]]
             \o DescriptorsFrom(Tail(pages), offset + Len(EncodePage(pg)))

Descriptors(i) == DescriptorsFrom(i.pages, 8)

\* The response's lengths agree with its content and every descriptor has
\* at least min_len bytes.
Consistent(i, min_len) ==
    /\ i.has_statuses
    /\ i.report_bytes = Len(EncodePages(i.pages))
    /\ \A k \in 1..Len(i.pages) :
          /\ i.pages[k].page_bytes = Len(Flatten(i.pages[k].descs))
          /\ i.pages[k].desc_len >= min_len
          /\ \A d \in 1..Len(i.pages[k].descs) :
                Len(i.pages[k].descs[d]) = i.pages[k].desc_len

Prefix(s, n) == SubSeq(s, 1, Min(n, Len(s)))

Offsets(ds) == [k \in 1..Len(ds) |-> ds[k].at]

\* C13 as stated: the entries written are those of the descriptors that are
\* not (zero in the 12 bytes from their start, in a storage page).
C13_SkipIffZero12Storage ==
    (ResParsed /\ Consistent(cmd.in, 2))
        => LET Kept(d) == ~(/\ \A k \in 0..11 : ByteAt(cmd.in.buf, d.at + k) = 0
                            /\ d.type = ELEM_STORAGE)
           IN  Offsets(cmd.out)
                  = Prefix(Offsets(SelectSeq(Descriptors(cmd.in), Kept)),
                           cmd.in.max_statuses)

\* C13 amended: the entries written are those of the descriptors that are
\* not (zero in their first 12 bytes, or in all their bytes when shorter,
\* in a page whose type code is storage).
C13_SkipIffZeroHeadStorage ==
    (ResParsed /\ Consistent(cmd.in, 2))
        => LET Kept(d) == ~(/\ \A k \in 1..Min(Len(d.bytes), 12) : d.bytes[k] = 0
                            /\ d.type = ELEM_STORAGE)
           IN  Offsets(cmd.out)
                  = Prefix(Offsets(SelectSeq(Descriptors(cmd.in), Kept)),
                           cmd.in.max_statuses)

\* C13 witness: the all-zero descriptor of a transport page got an entry
\* and the all-zero descriptor of the storage page after it got none.
C13_Witness ==
    /\ ResParsed /\ Consistent(cmd.in, 2)
    /\ cmd.in.pages = <<Page(ELEM_TRANSPORT, 12, <<DescZero>>),
                        Page(ELEM_STORAGE, 12, <<DescZero, DescExcept>>)>>
    /\ cmd.in.max_statuses = 8
    /\ cmd.rc = 2 /\ cmd.out[1].address = 0 /\ cmd.out[2].address = 18

\* C14: report_bytes = 0 in the header gives return code 0 and no entry,
\* whatever the other header fields, the bytes after the header and
\* max_statuses are.
C14_EmptyReport ==
    (ResParsed /\ cmd.in.report_bytes = 0)
        => (cmd.rc = 0 /\ cmd.out = <<>>)

\* C14 witness: a header with report_bytes = 0 and a non-zero element count,
\* followed by a storage page, with room for entries.
C14_Witness ==
    /\ ResParsed /\ cmd.in.report_bytes = 0
    /\ cmd.in.num_elem > 0 /\ cmd.in.max_statuses > 0 /\ cmd.in.has_statuses
    /\ cmd.in.pages[1].descs[1] = DescFull
    /\ cmd.rc = 0

\* C15: for a well-formed response the entries are the response's
\* descriptors in order (padding left out, max_statuses at most), each with
\* the address, full and exception bits of its descriptor and, for
\* descriptors of 12 bytes or more, its source-valid bit and source address;
\* the two-descriptor storage page gives 0x0010 full and 0x0011 not full.
C15_EntriesDecoded ==
    (ResParsed /\ Consistent(cmd.in, 3))
        => LET Kept(d) == ~(/\ \A k \in 1..Min(Len(d.bytes), 12) : d.bytes[k] = 0
                            /\ d.type = ELEM_STORAGE)
               ds == Prefix(SelectSeq(Descriptors(cmd.in), Kept),
                            cmd.in.max_statuses)
           IN  /\ cmd.rc = Len(ds) /\ Len(cmd.out) = Len(ds)
               /\ \A k \in 1..Len(ds) :
                     LET b == ds[k].bytes
                         e == cmd.out[k]
                     IN  /\ e.address = 256 * b[1] + b[2]
                         /\ e.full = (b[3] % 2 = 1)
                         /\ e.except = ((b[3] \div 4) % 2 = 1)
                         /\ Len(b) >= 12 =>
                               /\ e.src_set
                               /\ e.source_valid = (b[10] >= 128)
                               /\ e.source = 256 * b[11] + b[12]
               /\ (cmd.in.pages = <<Page(ELEM_STORAGE, 20,
                                         <<Desc20(16, 1), Desc20(17, 0)>>)>>
                     /\ cmd.in.max_statuses >= 2)
                    => /\ Len(cmd.out) = 2
                       /\ cmd.out[1].address = 16 /\ cmd.out[1].full
                       /\ cmd.out[2].address = 17 /\ ~cmd.out[2].full

\* C15 witness: the 56-byte response with the two-descriptor storage page
\* was parsed, and so was a descriptor with a valid source address.
C15_Witness ==
    /\ ResParsed /\ Consistent(cmd.in, 3)
    /\ Len(cmd.in.buf) = 56
    /\ cmd.in.pages[1].desc_len = 20
    /\ cmd.rc = 2

\* C17: TEST UNIT READY is sent one to three times, none after the first
\* that succeeds and none missing before it, then exactly one MODE SENSE;
\* when only the first TEST UNIT READY fails, two are sent.
C17_TurThenModeSense ==
    ms.op = "mode_sense"
        => LET n == Len(ms.cdbs) - 1
           IN  /\ n \in 1..3
               /\ \A k \in 1..n : ms.cdbs[k] = TurCdb
               /\ ms.cdbs[n + 1] = ModeSenseCdb
               /\ n <= ms.in.tur_fail + 1
               /\ n < 3 => n = ms.in.tur_fail + 1
               /\ ms.in.tur_fail = 1 => n = 2

\* C17 witness: the first TEST UNIT READY failed, the second succeeded and
\* the MODE SENSE that followed was parsed.
C17_Witness ==
    /\ ms.op = "mode_sense" /\ ms.in.tur_fail = 1
    /\ ms.cdbs = <<TurCdb, TurCdb, ModeSenseCdb>>
    /\ ms.rc = 0

EndsInSpace(str) == str # <<>> /\ str[Len(str)] = SPACE

\* C16: after a successful scsi_inquiry none of the vendor, product and
\* revision strings ends in a space, whatever bytes the fields held.
C16_NoTrailingSpace ==
    (cmd.op = "inquiry" /\ cmd.rc = 0 /\ cmd.out # <<>>)
        => /\ ~EndsInSpace(cmd.out[1].vendor)
           /\ ~EndsInSpace(cmd.out[1].product)
           /\ ~EndsInSpace(cmd.out[1].revision)

SingleCdbOps ==
    {"test_unit_ready", "inquiry", "read_element_status", "move_medium",
     "init_element_status"}

\* C18 as stated: every call of the five commands passes exactly one CDB to
\* changer_execute_cdb and returns its error unchanged.
C18_ExactlyOneCdb ==
    cmd.op \in SingleCdbOps
        => /\ Len(cmd.cdbs) = 1
           /\ cmd.in.exec_rc # 0 => cmd.rc = cmd.in.exec_rc

\* C18 amended: every call of the five commands passes at most one CDB to
\* changer_execute_cdb, exactly one unless scsi_read_element_status failed
\* to allocate its buffer and returned -1 before, and a failing CDB's error
\* is returned unchanged.
C18_AtMostOneCdb ==
    cmd.op \in SingleCdbOps
        => /\ Len(cmd.cdbs) <= 1
           /\ Len(cmd.cdbs) = 0 <=>
                 (cmd.op = "read_element_status" /\ ~cmd.in.calloc_ok)
           /\ Len(cmd.cdbs) = 0 => cmd.rc = -1
           /\ (Len(cmd.cdbs) = 1 /\ cmd.in.exec_rc # 0)
                 => cmd.rc = cmd.in.exec_rc

\* C18 witness: a MOVE MEDIUM failed and was passed on once.
C18_Witness ==
    /\ cmd.op = "move_medium" /\ cmd.in.exec_rc = -1
    /\ cmd.rc = -1
    /\ cmd.cdbs = <<MoveMediumCdb(224, 16, 256)>>

\* The request of the call in mnt was issued to Disk Arbitration.
DaIssued == \E k \in 1..Len(mnt.log) : mnt.log[k] = "issue"

\* C19: a mount_disc whose callback had not fired when the timeout elapsed
\* returns no mount point and holds no mount-point string, in both files
\* and for every timeout.
C19_TimeoutGivesNoMountPoint ==
    (mnt.pc = "returned" /\ mnt.op = "mount" /\ DaIssued /\ ~mnt.fired)
        => (mnt.ret_path = "NULL" /\ mnt.ctx.mount_point = "")

\* C19 witness: the bridge's mount_disc was called with timeout 0, issued
\* its request and returned without the callback having fired.
C19_Witness ==
    /\ mnt.pc = "returned" /\ mnt.op = "mount" /\ mnt.impl = "bridge"
    /\ DaIssued /\ ~mnt.fired
    /\ mnt.limit = 0
    /\ mnt.ret_path = "NULL"

\* C20: an issued mount, unmount or eject returns the timeout error when
\* the callback did not fire in time, the dissenter's status (no mount
\* point, for mount) when the callback delivered a dissenter, and success
\* otherwise: 0 for unmount and eject, a mount-point path for mount.
C20_OutcomeClassified ==
    (mnt.pc = "returned" /\ DaIssued)
        => /\ ~mnt.fired =>
                 IF mnt.op = "mount" THEN mnt.ret_path = "NULL"
                 ELSE mnt.ret_code = -1
           /\ (mnt.fired /\ mnt.delivered # <<>>) =>
                 IF mnt.op = "mount" THEN mnt.ret_path = "NULL"
                 ELSE mnt.ret_code = mnt.delivered[1]
           /\ (mnt.fired /\ mnt.delivered = <<>>) =>
                 IF mnt.op = "mount" THEN mnt.ret_path # "NULL"
                 ELSE mnt.ret_code = 0


\* The state of the request of the current call: Pending from the issue to
\* the end of the wait, then Completed or TimedOut.
DaStatus ==
    CASE mnt.pc = "idle" \/ ~DaIssued -> "None"
      [] mnt.ctx.done -> "Completed"
      [] mnt.pc = "waiting" -> "Pending"
      [] OTHER -> "TimedOut"

\* C21: a request makes one terminal transition, Pending to Completed or
\* Pending to TimedOut: a timed-out or completed request keeps its state
\* and its context until the call's result is dropped, no call's context is
\* written twice, and no completion is ever delivered for a request whose
\* wait has ended.  Disk Arbitration delivers a completion only through
\* the request's session while that session is on a run loop being run.
C21_SingleTerminalTransition ==
    /\ [](~mnt.late /\ ~mnt.zombie)
    /\ [][/\ DaStatus \in {"TimedOut", "Completed"} =>
               /\ DaStatus' \in {DaStatus, "None"}
               /\ mnt'.pc # "idle" => mnt'.ctx = mnt.ctx
          /\ DaStatus = "Pending" =>
               DaStatus' \in {"Pending", "Completed", "TimedOut"}
          /\ (mnt.fired /\ mnt'.pc # "idle") =>
               (mnt'.fired /\ mnt'.ctx = mnt.ctx)]_vars

\* C21 witness: after a wait of this process ended by timeout, a later
\* call is running the run loop in its own wait, and no completion of the
\* timed-out request has been delivered.
C21_Witness ==
    /\ mnt.had_timeout
    /\ mnt.pc = "waiting" /\ mnt.elapsed > 0
    /\ DaStatus = "Pending"
    /\ ~mnt.late

\* The value mount_eject_disc returns, from what Disk Arbitration did:
\* -1 when the request could not be issued or did not complete in time,
\* else the status of the dissenter delivered, else 0.
EjectReturn(issued, fired, delivered, status_read) ==
    IF ~issued \/ ~fired THEN -1
    ELSE IF delivered = <<>> THEN 0
    ELSE status_read

\* C22: mount_eject_disc ignores force: whatever the identifier and
\* whatever Disk Arbitration does, the request is issued with the default
\* option and the value returned is determined by Disk Arbitration's
\* behaviour alone, in both files.
C22_EjectIgnoresForce ==
    (mnt.pc = "returned" /\ mnt.op = "eject")
        => /\ DaIssued => mnt.option = "kDADiskEjectOptionDefault"
           /\ mnt.ret_code =
                 EjectReturn(DaIssued, mnt.fired, mnt.delivered, mnt.status_read)

\* C22 witness: an eject called with force = TRUE was issued and completed
\* without a dissenter, in the bridge.
C22_Witness ==
    /\ mnt.pc = "returned" /\ mnt.op = "eject" /\ mnt.force
    /\ mnt.impl = "bridge"
    /\ DaIssued /\ mnt.fired /\ mnt.delivered = <<>>
    /\ mnt.option = "kDADiskEjectOptionDefault"
    /\ mnt.ret_code = 0

\* C23: every operation that resolves a disc hands Disk Arbitration the
\* bare BSD name: the identifier without one leading "/dev/", which never
\* begins with "/dev/", in both files.
C23_BareNameResolved ==
    (mnt.pc # "idle" /\ Has(mnt.log, "create"))
        => /\ mnt.name = StripDev(mnt.bsd_name)
           /\ Head(mnt.name) # "/dev/"


\* The name of the first class, in the order DVD, CD, Blu-ray, whose
\* instance has a BSD name; "NULL" when no class has one.
FirstNamed(reg) ==
    IF NameOf(reg["DVD"]) # "NULL" THEN NameOf(reg["DVD"])
    ELSE IF NameOf(reg["CD"]) # "NULL" THEN NameOf(reg["CD"])
    ELSE NameOf(reg["BD"])

\* C24: the locator asks for DVD, CD, Blu-ray in that order and returns the
\* identifier of the first class that yields one, none only if no class
\* yields one, in both files.
C24_FirstClassWithName ==
    (loc.pc = "returned" /\ loc.op = "find")
        => /\ loc.ret = FirstNamed(loc.reg)
           /\ loc.queried \in {<<"DVD">>, <<"DVD", "CD">>, <<"DVD", "CD", "BD">>}

\* C25: mount_wait_for_disc asks the locator every 500 ms, returns 0 on
\* the first query that finds a disc and -1 only if no query found one,
\* and reports a disc that was present for the whole call as found.
C25_PollsEveryHalfSecond ==
    (loc.pc = "returned" /\ loc.op = "wait")
        => /\ \A k \in 1..(Len(loc.times) - 1) :
                 loc.times[k + 1] - loc.times[k] = HalfSecond
           /\ \A k \in 1..(Len(loc.found) - 1) : ~loc.found[k]
           /\ loc.rc = 0 <=> (loc.found # <<>> /\ loc.found[Len(loc.found)])
           /\ loc.rc \in {0, -1}
           /\ loc.present => loc.rc = 0


\* The rows of the mapping table: the string for a covered (sense_key,
\* asc, ascq), "" for one the table does not cover.
SenseTable(sense_key, asc, ascq) ==
    CASE sense_key = 0 -> "No sense"
      [] sense_key = 2 /\ asc = 4 /\ ascq = 0 -> "Not ready, cause not reportable"
      [] sense_key = 2 /\ asc = 4 /\ ascq = 1 -> "Becoming ready"
      [] sense_key = 2 /\ asc = 4 /\ ascq = 2 -> "Needs INITIALIZE ELEMENT STATUS"
      [] sense_key = 2 /\ asc = 4 /\ ascq = 3 -> "Manual intervention required"
      [] sense_key = 2 /\ asc = 58 -> "Medium not present"
      [] sense_key = 5 /\ asc = 33 -> "Invalid element address"
      [] sense_key = 5 /\ asc = 36 -> "Invalid field in CDB"
      [] sense_key \in {5, 11} /\ asc = 59 /\ ascq = 13 -> "Medium destination full"
      [] sense_key \in {5, 11} /\ asc = 59 /\ ascq = 14 -> "Medium source empty"
      [] sense_key \in {5, 11} /\ asc = 59 -> "Element position error"
      [] sense_key = 6 /\ asc = 40 -> "Medium may have changed"
      [] sense_key = 6 /\ asc = 41 -> "Power on or reset"
      [] OTHER -> ""

\* C26: for every valid sense the mapping table covers, scsi_sense_string
\* returns exactly the table's string.
C26_SenseStringIsTable ==
    (/\ cmd.op = "sense_string"
     /\ cmd.in # <<>>
     /\ cmd.in[1].valid
     /\ SenseTable(cmd.in[1].sense_key, cmd.in[1].asc, cmd.in[1].ascq) # "")
        => cmd.out[1] =
              SenseTable(cmd.in[1].sense_key, cmd.in[1].asc, cmd.in[1].ascq)


\* The kernel attach was tried and failed and the SBP-2 attach succeeded.
FellBackToSbp2(c) ==
    phase[c] = "connected" /\ connLog[c] = <<"scsitask", "sbp2">>

Occurrences(seq, x) == Cardinality({k \in 1..Len(seq) : seq[k] = x})

\* C28: the lease of the kernel backend is advisory: a kernel attach that
\* reached the lease step leaves the connection connected with backend
\* BACKEND_SCSITASK whether or not the lease was granted, has_exclusive is
\* true exactly when it was granted, and changer_disconnect releases the
\* lease exactly when has_exclusive is true.
C28_LeaseAdvisory ==
    /\ [](\A c \in Conns :
            "scsi_device" \in acquired[c]
               => (connLog[c] = <<"scsitask">> /\ phase[c] # "failed"))
    /\ [](\A c \in Conns :
            (phase[c] = "connected" /\ connLog[c] = <<"scsitask">>)
               => /\ conn[c].connected
                  /\ conn[c].backend = BACKEND_SCSITASK
                  /\ "scsi_device" \in acquired[c]
                  /\ conn[c].has_exclusive <=> ("lease" \in acquired[c]))
    /\ [][\A c \in Conns :
            (phase[c] = "connected" /\ phase'[c] = "disconnected")
               => Occurrences(released'[c], "lease")
                    - Occurrences(released[c], "lease")
                  = IF conn[c].has_exclusive THEN 1 ELSE 0]_vars

\* C28 witness: a kernel attach whose lease was refused was connected and
\* has been disconnected without a lease release.
C28_Witness ==
    /\ phase["A"] = "disconnected"
    /\ connLog["A"] = <<"scsitask">>
    /\ "scsi_device" \in acquired["A"]
    /\ "lease" \notin acquired["A"]
    /\ Occurrences(released["A"], "lease") = 0
    /\ Occurrences(released["A"], "scsi_device") = 1

\* The wait of the latest call was ended by the status-notify callback.
StatusFired == last.from \in {"own", "stale", "foreign"}

\* C29: a CDB over the SBP-2 backend returns 0 exactly when the
\* status-notify callback fired during the wait with event
\* NormalCommandStatus; it returns -1 when the wait timed out, when the
\* event was another one, and when the ORB could not be created or
\* submitted.
C29_Sbp2SuccessIffNormalStatus ==
    (last.op = "exec" /\ last.via = "sbp2")
        => /\ last.rc \in {0, -1}
           /\ last.rc = 0 <=>
                 (StatusFired /\ last.event = "NormalCommandStatus")
           /\ StatusFired => (last.orb /\ last.submitted)
           /\ (~last.orb \/ ~last.submitted \/ last.from = "timeout")
                 => last.rc = -1

\* C29 witness: the callback fired in time with an event other than
\* NormalCommandStatus and the call returned -1.
C29_Witness ==
    /\ last.op = "exec" /\ last.via = "sbp2"
    /\ StatusFired /\ last.from = "own"
    /\ last.event # "NormalCommandStatus"
    /\ last.rc = -1

\* C30: whenever an ORB was submitted with a data buffer attached, the
\* call released the command buffers and then the ORB, and every ORB
\* created was released exactly once.
C30_BuffersThenOrb ==
    (last.op = "exec" /\ last.via = "sbp2")
        => /\ (last.orb /\ last.submitted /\ Sbp2HasBuffer(last.dir, last.len))
                 => last.orb_log = <<"releaseCommandBuffers", "Release">>
           /\ last.orb => Occurrences(last.orb_log, "Release") = 1
           /\ ~last.orb => last.orb_log = <<>>


\* The place of the first occurrence of an event in a log, 0 when absent.
IndexOf(log, event) ==
    IF Has(log, event)
    THEN CHOOSE k \in 1..Len(log) :
             log[k] = event /\ \A j \in 1..(k - 1) : log[j] # event
    ELSE 0

\* C31: in mount, unmount and eject a session that was created and
\* scheduled is unscheduled once and then released once before the call
\* returns, whichever way the call ends, and the operation is issued only
\* after the session was scheduled and before it is unscheduled.
C31_SessionUnscheduledAndReleasedOnce ==
    (mnt.op \in DaOps /\ mnt.pc # "idle")
        => /\ Has(mnt.log, "issue") =>
                 /\ Has(mnt.log, "schedule")
                 /\ IndexOf(mnt.log, "schedule") < IndexOf(mnt.log, "issue")
                 /\ Has(mnt.log, "unschedule") =>
                       IndexOf(mnt.log, "issue") < IndexOf(mnt.log, "unschedule")
           /\ mnt.pc = "waiting" =>
                 (Has(mnt.log, "issue") /\ ~Has(mnt.log, "unschedule")
                    /\ ~Has(mnt.log, "release_session"))
           /\ mnt.pc = "returned" =>
                 /\ Occurrences(mnt.log, "schedule")
                       = Occurrences(mnt.log, "create")
                 /\ Occurrences(mnt.log, "create") <= 1
                 /\ Occurrences(mnt.log, "unschedule")
                       = Occurrences(mnt.log, "schedule")
                 /\ Occurrences(mnt.log, "release_session")
                       = Occurrences(mnt.log, "create")
                 /\ Has(mnt.log, "schedule") =>
                       /\ IndexOf(mnt.log, "schedule")
                             < IndexOf(mnt.log, "unschedule")
                       /\ IndexOf(mnt.log, "unschedule")
                             < IndexOf(mnt.log, "release_session")

\* C31 witness: an unmount whose disc could not be resolved has returned
\* after scheduling, unscheduling and releasing its session.
C31_Witness ==
    /\ mnt.pc = "returned" /\ mnt.op = "unmount"
    /\ ~Has(mnt.log, "issue")
    /\ mnt.log = <<"create", "schedule", "unschedule", "release_session">>
    /\ mnt.ret_code = -1


\* C32 as stated: the MODE SENSE CDB submitted is the 10 bytes
\* 5A 08 1D 00 00 00 00 00 FF 00, with data direction Read.
C32_CdbAllocation255 ==
    ms.op = "mode_sense"
        => /\ ms.cdbs[Len(ms.cdbs)] = <<90, 8, 29, 0, 0, 0, 0, 0, 255, 0>>
           /\ ms.dir = DIR_READ

\* C32, amended: the MODE SENSE CDB submitted is the 10 bytes
\* 5A 08 1D 00 00 00 00 01 00 00 (allocation length 0x0100 in bytes 7 and
\* 8), with data direction Read into a buffer of that length.
C32_CdbAllocation256 ==
    ms.op = "mode_sense"
        => /\ Len(ms.cdbs) >= 1
           /\ ms.cdbs[Len(ms.cdbs)] = <<90, 8, 29, 0, 0, 0, 0, 1, 0, 0>>
           /\ ms.dir = DIR_READ
           /\ ms.buffer_len = 256

\* C32 witness: a MODE SENSE was submitted after one TEST UNIT READY and
\* the call returned 0.
C32_Witness ==
    /\ ms.op = "mode_sense" /\ ms.rc = 0
    /\ Len(ms.cdbs) = 2
    /\ ms.cdbs[2][8] = 1 /\ ms.cdbs[2][9] = 0


\* C33: over the SBP-2 backend the status of an ORB whose wait has ended
\* is never taken as the completion of a later CDB: a call whose wait was
\* completed was completed by the status of the ORB it submitted, and a
\* call returns 0 only on that status.
C33_OnlyOwnStatusCompletes ==
    (last.op = "exec" /\ last.via = "sbp2")
        => /\ StatusFired => last.from = "own"
           /\ last.rc = 0 => last.from = "own"


\* C34: once changer_connect followed by changer_disconnect has completed,
\* every registry service handle acquired during the connect has been
\* released exactly once, on every connect path.
C34_ServiceHandlesReleasedOnce ==
    \A c \in Conns :
        phase[c] \in {"disconnected", "disconnected_again"}
            => \A h \in ServiceHandles \cap acquired[c] :
                   Occurrences(released[c], h) = 1


\* C35: after changer_disconnect the connection records no live ownership:
\* connected = false, backend = BACKEND_NONE, has_exclusive = false, and
\* scsi_device, login, lun and service are null; and has_exclusive is true
\* only while the connection is connected through the kernel backend.
C35_TerminalStateAfterDisconnect ==
    \A c \in Conns :
        /\ phase[c] \in {"disconnected", "disconnected_again"}
              => /\ ~conn[c].connected
                 /\ conn[c].backend = BACKEND_NONE
                 /\ ~conn[c].has_exclusive
                 /\ conn[c].scsi_device = NULL
                 /\ conn[c].login = NULL
                 /\ conn[c].lun = NULL
                 /\ conn[c].service = NULL
        /\ conn[c].has_exclusive
              => (conn[c].connected /\ conn[c].backend = BACKEND_SCSITASK)


\* C36: while parsing a READ ELEMENT STATUS response every index read is
\* below the allocated length, and every byte read for a descriptor lies
\* inside that descriptor, whatever the header values, page byte counts
\* and descriptor lengths.
C36_ReadsInsideBufferAndDescriptor ==
    cmd.op = "read_element_status"
        => LET v == ResReads(cmd.in)
               alloc == ResAlloc(cmd.in.count)
           IN  /\ \A r \in v.headers : r < alloc
               /\ \A k \in 1..Len(v.seen) :
                     \A r \in v.seen[k].reads :
                        /\ r < alloc
                        /\ v.seen[k].at <= r
                        /\ r < v.seen[k].at + v.seen[k].len


\* C37: the page walk terminates: every pass of the page loop and every
\* pass of the descriptor loop leaves the offset strictly greater than it
\* found it and never beyond the end of the buffer, so the number of passes
\* is bounded by the allocation, for every descriptor length and every page
\* byte count.
C37_OffsetStrictlyIncreases ==
    cmd.op = "read_element_status"
        => LET w == ResReads(cmd.in)
               alloc == ResAlloc(cmd.in.count)
           IN  /\ \A k \in 1..Len(w.steps) :
                     /\ w.steps[k].from < w.steps[k].to
                     /\ w.steps[k].to <= alloc
               /\ \A j, k \in 1..Len(w.steps) :
                     (j < k /\ w.steps[j].loop = w.steps[k].loop)
                        => w.steps[j].from < w.steps[k].from
               /\ Len(w.steps) <= alloc

\* C37 witness: a page whose header declares descriptor length 1 was
\* walked: the descriptor loop made one pass over it and the page loop
\* went on from the end of the page.
C37_Witness ==
    /\ cmd.op = "read_element_status"
    /\ \E k \in 1..Len(ResReads(cmd.in).steps) :
          /\ ResReads(cmd.in).steps[k].loop = "descriptor"
          /\ ResReads(cmd.in).steps[k].desc_len = 1
    /\ cmd.rc = 0


\* C38: a call of scsi_mode_sense_element that returns an error (command
\* failure, response too short, unexpected page code, page length below 16,
\* slot-array allocation failure) leaves the caller's ElementMap as it was.
C38_ErrorLeavesMapUnmodified ==
    [][(ms'.op = "mode_sense" /\ ms'.rc # 0) => map' = map]_vars


\* C39: in mount, unmount and eject of both files the status of the
\* dissenter delivered to the completion callback is read only while the
\* callback runs, never after it returned or after the session was
\* released.
C39_DissenterReadOnlyInCallback ==
    \A k \in 1..Len(mnt.derefs) : mnt.derefs[k] = "in_callback"

=============================================================================
